---- MODULE Spec2Model ----
(***************************************************************************)
(* Model of the PostgreSQL high-write-load client:                         *)
(*   - the orchestrator            (main.go, _main)                        *)
(*   - the connection manager      (clients/postgres/connection_manager)   *)
(*   - the v1 load generator       (clients/postgres/load_generator.go)    *)
(*   - the metrics aggregator      (metrics/metrics.go)                    *)
(*                                                                         *)
(* Identifier sets.  The store assigns identifiers from a BIGSERIAL        *)
(* sequence, so every batch receives a contiguous block.  A set of         *)
(* identifiers (the rows of the table, the sync.Map of tracked ids) is     *)
(* therefore kept as the set of its maximal runs <<lo, hi>>; all counts    *)
(* are computed on the runs by interval arithmetic, which lets the model   *)
(* work with the program's real sizes (10,000 per chunk, 100,000           *)
(* threshold) without enumerating single identifiers.                      *)
(***************************************************************************)
EXTENDS Integers, Sequences, FiniteSets, TLC

(***************************************************************************)
(* Bounds of the model                                                     *)
(***************************************************************************)
MaxWorkers == 2      \* largest ConcurrentWriters explored
MaxOps == 2          \* worker iterations (performInsert/performUpdate) per run
MaxLoss == 1         \* data-loss events (rows vanishing from the table) per run
MaxPartial == 1      \* batch inserts that fail part-way per run
NumStoppers == 1     \* goroutines besides _main that call Stop() in SpecStop
MaxBatches == 12     \* successful worker batches behind a state of SpecVerify

(***************************************************************************)
(* Program constants                                                       *)
(***************************************************************************)
RangeThreshold == 100000   \* CheckDataLoss: len(insertedIDs) > 100000
ChunkSize == 10000         \* CheckDataLoss: batchSize := 10000
SeedCount == 10000         \* Initialize: seedInitialData(ctx, 10000)
SeedBatch == 1000          \* seedInitialData: batchSize := 1000
InsertRowBytes == 500      \* performInsert: len(records) * 500
UpdateBytes == 400         \* performUpdate: int64(400)
DefaultDuration == 300     \* LoadFromEnv: TEST_RUN_DURATION default; Duration is held in seconds
OneSecond == 1             \* time.Second, in the unit of Duration
DefaultReadBatchSize == 10 \* LoadFromEnv: READ_BATCH_SIZE default
V2SeedCount == 50000       \* LoadGeneratorV2.Initialize: rows seeded into an empty table
V2InsertRowBytes == 600    \* LoadGeneratorV2.performInsert: estimated bytes per row
V2UpdateBytes == 500       \* LoadGeneratorV2.performUpdate: estimated bytes
DataBytes == 1024          \* generateRecord: length of the data column
DieSides == 100            \* worker: rng.Intn(100)
LatencyCap == 10000        \* RecordInsert / RecordUpdate: samples kept

Min(a, b) == IF a <= b THEN a ELSE b
Max(a, b) == IF a >= b THEN a ELSE b

(***************************************************************************)
(* Sets of identifiers as sets of maximal runs <<lo, hi>>                  *)
(***************************************************************************)
RunLen(r) == r[2] - r[1] + 1

\* number of identifiers common to [lo1, hi1] and [lo2, hi2]
Overlap(lo1, hi1, lo2, hi2) == Max(0, Min(hi1, hi2) - Max(lo1, lo2) + 1)

\* number of identifiers of the set S lying in [lo, hi]
RECURSIVE CountIn(_, _, _)
CountIn(S, lo, hi) ==
    IF S = {} THEN 0
    ELSE LET r == CHOOSE x \in S : TRUE
         IN Overlap(r[1], r[2], lo, hi) + CountIn(S \ {r}, lo, hi)

\* number of identifiers in S
RECURSIVE Card(_)
Card(S) ==
    IF S = {} THEN 0
    ELSE LET r == CHOOSE x \in S : TRUE IN RunLen(r) + Card(S \ {r})

\* number of identifiers of A that are also in B
RECURSIVE CountCommon(_, _)
CountCommon(A, B) ==
    IF A = {} THEN 0
    ELSE LET r == CHOOSE x \in A : TRUE
         IN CountIn(B, r[1], r[2]) + CountCommon(A \ {r}, B)

\* S with the block [lo, hi] added; the block lies above every member of S
AddBlock(S, lo, hi) ==
    IF hi < lo THEN S
    ELSE IF \E r \in S : r[2] = lo - 1
         THEN LET r == CHOOSE x \in S : x[2] = lo - 1
              IN (S \ {r}) \cup {<<r[1], hi>>}
         ELSE S \cup {<<lo, hi>>}

\* S without the identifiers in [lo, hi]
RemoveRange(S, lo, hi) ==
    {<<r[1], Min(r[2], lo - 1)>> : r \in {x \in S : x[1] <= lo - 1}}
    \cup {<<Max(r[1], hi + 1), r[2]>> : r \in {x \in S : x[2] >= hi + 1}}

MinID(S) == (CHOOSE r \in S : \A x \in S : r[1] <= x[1])[1]
\* a scan whose maxID is never raised above the least identifier
MaxID_unraised(S) == MinID(S)

MaxID(S) == (CHOOSE r \in S : \A x \in S : r[2] >= x[2])[2]

\* the runs of S as a sequence, ascending
RECURSIVE AscendingRuns(_)
AscendingRuns(S) ==
    IF S = {} THEN <<>>
    ELSE LET r == CHOOSE x \in S : \A y \in S : x[1] <= y[1]
         IN <<r>> \o AscendingRuns(S \ {r})

Reverse(s) == [i \in 1..Len(s) |-> s[Len(s) + 1 - i]]


(***************************************************************************)
(* Inputs                                                                  *)
(***************************************************************************)
\* die values rng.Intn(100) tried in a worker iteration
Rolls == {0, 69, 70, 99}
\* rows already in the table when the run starts
PreexistingRows == {0, 500}
\* the store's max_connections and its non-idle sessions at connect time
StoreCapacities == {100}
StoreSessions == {90, 95, 96, 98}
\* BATCH_SIZE of the orchestrator runs and of the long runs behind SpecVerify
RunBatchSizes == {2}
LongRunBatchSizes == {9000}

(***************************************************************************)
(* config.Config (the fields the engine reads)                             *)
(***************************************************************************)
\* cfg.DB.MaxOpenConns = getEnvAsInt("DB_MAX_OPEN_CONNS", 50)
DefaultMaxOpenConns == 50

Config(writers, batch, readPct, insertPct, updatePct, minFree) ==
    [ConcurrentWriters |-> writers, BatchSize |-> batch,
     ReadPercent |-> readPct, InsertPercent |-> insertPct,
     UpdatePercent |-> updatePct, MinFreeConns |-> minFree,
     MaxOpenConns |-> DefaultMaxOpenConns,
     ReadBatchSize |-> DefaultReadBatchSize,
     Host |-> "localhost", User |-> "postgres", DBName |-> "testdb",
     Duration |-> DefaultDuration]

RunConfigs == {Config(n, b, 0, 70, 30, 5) : n \in 1..MaxWorkers, b \in RunBatchSizes}

(***************************************************************************)
(* ConnectionManager.GetConnectionStats                                    *)
(***************************************************************************)
\* The values are int32 in the program; the inputs explored stay far inside
\* that range, where int32 arithmetic is integer arithmetic.
GetConnectionStats_strict(maxConns, currentConns, minFree) ==
    LET available == maxConns - currentConns
    IN [MaxConnections |-> maxConns,
        CurrentConnections |-> currentConns,
        AvailableConnections |-> available,
        CanConnect |-> available > minFree]

GetConnectionStats(maxConns, currentConns, minFree) ==
    LET available == maxConns - currentConns
    IN [MaxConnections |-> maxConns,
        CurrentConnections |-> currentConns,
        AvailableConnections |-> available,
        CanConnect |-> available >= minFree]

NoError == [kind |-> "nil"]

\* the error NewConnectionManager returns when !stats.CanConnect
InsufficientError(stats, minFree) ==
    [kind |-> "insufficient", max |-> stats.MaxConnections,
     current |-> stats.CurrentConnections,
     available |-> stats.AvailableConnections, required_free |-> minFree]

(***************************************************************************)
(* LoadGenerator.worker: the pre-iteration select and the die roll         *)
(***************************************************************************)
WorkerShouldExit_ctxOnly(ctxCancelled, stopClosed) == ctxCancelled
WorkerShouldExit_stopOnly(ctxCancelled, stopClosed) == stopClosed

\* select { case <-ctx.Done(): return; case <-lg.stopChan: return; default: }
WorkerShouldExit(ctxCancelled, stopClosed) == ctxCancelled \/ stopClosed

\* roll < InsertPercent: insert, otherwise update
PickOperation(roll, c) == IF roll < c.InsertPercent THEN "insert" ELSE "update"

(***************************************************************************)
(* LoadGenerator.batchInsert against the store                             *)
(*                                                                         *)
(* An outcome says how many of the returned identifiers the client read    *)
(* before the statement ended (recorded), whether the rows are durably in  *)
(* the table (committed) and whether batchInsert returns an error (err).   *)
(***************************************************************************)
OkOutcome(n) == [recorded |-> n, committed |-> TRUE, err |-> FALSE]
RejectOutcome == [recorded |-> 0, committed |-> FALSE, err |-> TRUE]

\* failures after the store has assigned identifiers: the reply is lost or
\* cut short (rows.Scan / rows.Err fail), the statement committed or not
PartialOutcomes(n) ==
    {[recorded |-> k, committed |-> c, err |-> TRUE] :
        k \in {0, n \div 2}, c \in BOOLEAN} \ {RejectOutcome}

\* store and tracked set after batchInsert of n records with outcome o;
\* st = [table, nextID, insertedIDs, totalInsertedIDs]
ApplyBatch_seedsUntracked(st, n, o) ==
    LET assigned == o.committed \/ o.recorded > 0
        lo == st.nextID
        kept == IF st.totalInsertedIDs < SeedCount /\ st.table = st.insertedIDs
                THEN 0 ELSE o.recorded
    IN [table |-> IF o.committed THEN AddBlock(st.table, lo, lo + n - 1)
                  ELSE st.table,
        nextID |-> IF assigned THEN lo + n ELSE lo,
        insertedIDs |-> AddBlock(st.insertedIDs, lo, lo + kept - 1),
        totalInsertedIDs |-> st.totalInsertedIDs + kept]

ApplyBatch(st, n, o) ==
    LET assigned == o.committed \/ o.recorded > 0
        lo == st.nextID
    IN [table |-> IF o.committed THEN AddBlock(st.table, lo, lo + n - 1)
                  ELSE st.table,
        nextID |-> IF assigned THEN lo + n ELSE lo,
        insertedIDs |-> AddBlock(st.insertedIDs, lo, lo + o.recorded - 1),
        totalInsertedIDs |-> st.totalInsertedIDs + o.recorded]


(***************************************************************************)
(* LoadGenerator.CheckDataLoss and checkDataLossOptimized                  *)
(***************************************************************************)
UseOptimized_atThreshold(n) == n >= RangeThreshold

\* if len(insertedIDs) > 100000 { return lg.checkDataLossOptimized(...) }
UseOptimized(n) == n > RangeThreshold

\* totalBatches := (len(insertedIDs) + batchSize - 1) / batchSize
TotalBatches(n) == (n + ChunkSize - 1) \div ChunkSize

NextChunk_overlap(i) == i + ChunkSize - 1

\* for i := 0; i < len(insertedIDs); i += batchSize
NextChunk(i) == i + ChunkSize

ChunkEnd_short(i, n) == Min(i + ChunkSize - 1, n)

\* end := i + batchSize; if end > len(insertedIDs) { end = len(insertedIDs) }
ChunkEnd(i, n) == Min(i + ChunkSize, n)

\* len(ids) for a slice given by its runs
RECURSIVE SliceLen(_)
SliceLen(runs) ==
    IF runs = <<>> THEN 0 ELSE RunLen(Head(runs)) + SliceLen(Tail(runs))

\* SELECT COUNT(*) FROM t WHERE id IN (ids[i:end]): the slice positions
\* i .. end-1 (0-based) whose identifier is a row of the table; off is the
\* position of the first identifier of runs
RECURSIVE ChunkCount(_, _, _, _, _)
ChunkCount(runs, off, i, end, rows) ==
    IF runs = <<>> THEN 0
    ELSE LET r == Head(runs)
             from == Max(i, off)
             to == Min(end, off + RunLen(r))
             here == IF from < to
                     THEN CountIn(rows, r[1] + (from - off), r[1] + (to - off) - 1)
                     ELSE 0
         IN here + ChunkCount(Tail(runs), off + RunLen(r), i, end, rows)

RangeCount_exclusive(rows, minID, maxID) == CountIn(rows, minID, maxID - 1)

\* SELECT COUNT(*) FROM t WHERE id >= minID AND id <= maxID
RangeCount(rows, minID, maxID) == CountIn(rows, minID, maxID)

CancelResult_partial(total, found) ==
    [total |-> total, lost |-> total - found, err |-> "cancelled"]

\* return 0, 0, fmt.Errorf("data loss check cancelled: %w", ctx.Err())
CancelResult(total, found) == [total |-> 0, lost |-> 0, err |-> "cancelled"]

\* return 0, 0, fmt.Errorf("failed to check data loss ...: %w", err)
QueryFailedResult(total, found) == [total |-> 0, lost |-> 0, err |-> "query_failed"]

\* lost := totalInserted - found; return totalInserted, lost, nil
ChunkedResult(total, found) == [total |-> total, lost |-> total - found, err |-> "nil"]

OptimizedResult_unclamped(total, foundInRange) ==
    [total |-> total, lost |-> total - foundInRange, err |-> "nil"]

\* the value checkDataLossOptimized returns after a successful range count
OptimizedResult(total, foundInRange) ==
    IF foundInRange >= total
    THEN [total |-> total, lost |-> 0, err |-> "nil"]
    ELSE LET lost == total - foundInRange
         IN [total |-> total, lost |-> IF lost < 0 THEN 0 ELSE lost, err |-> "nil"]

\* the lines checkDataLossOptimized prints with that result
OptimizedMessages(total, foundInRange) ==
    IF foundInRange >= total
    THEN <<"complete">>
    ELSE <<"complete_estimated", "note_range_estimation">>

NoResult == [err |-> "pending"]

\* the Data Loss Report _main prints for a result without error
DataLossReport(res) ==
    [total |-> res.total, found |-> res.total - res.lost, lost |-> res.lost,
     verdict |-> IF res.lost > 0 THEN "warning"
                 ELSE IF res.total > 0 THEN "no_data_loss" ELSE "none"]


(***************************************************************************)
(* sync.Once and sync.WaitGroup as Stop() uses them                        *)
(***************************************************************************)
OnceMayEnter_unlocked(locked) == TRUE

\* Once.doSlow: o.m.Lock() blocks while another caller runs f
OnceMayEnter(locked) == ~locked

WaitGroupDone_noWait(n) == TRUE

\* wg.Wait() returns when the counter is zero
WaitGroupDone(n) == n = 0

(***************************************************************************)
(* State                                                                   *)
(***************************************************************************)
VARIABLES
    cfg,               \* the validated configuration
    engine,            \* the engine the orchestrator has built: "v1" or "v2"
    maxConnections,    \* store: SHOW max_connections
    nonIdleSessions,   \* store: non-idle sessions in pg_stat_activity
    table,             \* store: identifiers of the rows of the test table
    nextID,            \* store: next value of the BIGSERIAL sequence
    tableTouched,      \* store: a statement on the test table was issued
    mainPC,            \* position of _main
    exitErr,           \* the error _main prints before os.Exit(1)
    seedI,             \* seedInitialData: i
    spawnI,            \* Start: i
    ctxDone,           \* the run context (Duration+30s timeout) is done
    stopChan,          \* lg.stopChan: "open" or "closed"
    closeCount,        \* number of close(lg.stopChan) executed
    onceDone,          \* lg.stopOnce: done
    onceLocked,        \* lg.stopOnce: m is held
    wg,                \* lg.wg counter
    stopPC,            \* position of every caller of Stop(); caller 0 is _main
    stopCalls,         \* Stop() calls made by every caller
    stopContended,     \* a Stop() call arrived while another ran the teardown
    pc,                \* position of every worker goroutine
    lateOps,           \* per worker: store statements begun after the stop request
    lateChecks,        \* per worker: iterations entered after the stop request
    opsBegun,          \* worker iterations begun in the run
    recording,         \* per worker: identifiers batchInsert has still to read
    benignNoRows,      \* performUpdate calls that found no row to update
    partials,          \* batch inserts that failed while their reply was read
    lossEvents,        \* data-loss events so far
    totalInserts, totalUpdates, totalErrors, totalBytes,   \* metrics counters
    insertLatencies,   \* metrics: len(insertLatencies)
    updateLatencies,   \* metrics: len(updateLatencies)
    totalReads,        \* MetricsV2: totalReads
    readLatencies,     \* MetricsV2: len(readLatencies)
    totalRows,         \* LoadGeneratorV2: totalRows
    latencyMutex,      \* metrics: latencyMutex (writer and readers holding it)
    snapPC,            \* position inside GetSnapshot
    snap,              \* GetSnapshot: the snapshot being filled
    lastSnap,          \* the snapshot returned last
    calls,             \* Record* calls made and the bytes passed to them
    durations,         \* calculatePercentile: the buffer passed
    percentile,        \* calculatePercentile: the percentile passed
    result,            \* calculatePercentile: the value returned
    reply,             \* per worker: the store's reply to the statement in flight
    initCalls,         \* Initialize calls made after the first one
    seen,              \* history: counter values held since GetSnapshot was entered
    samples,           \* metrics: the content of the latency buffers, per kind
    recorded,          \* all latencies appended so far, per kind, in order
    reporter,          \* the metrics reporting goroutine of _main
    restart,           \* Start() calls made after Stop() has returned
    rng,               \* per worker: values drawn from the worker's generator
    globalRand,        \* values drawn from the generator of package math/rand
    monitor,           \* the MonitorConnections goroutine
    connMetrics,       \* metrics: activeConns, maxConns, availableConns
    insertedIDs,       \* metrics: the tracked identifiers (sync.Map keys)
    totalInsertedIDs,  \* metrics: totalInsertedIDs
    dlCtxDone,         \* the data-loss context (60s timeout) is done
    vPC,               \* position inside CheckDataLoss
    vCalls,            \* CheckDataLoss invocations
    vIDs,              \* CheckDataLoss: insertedIDs (the slice, by runs)
    vI,                \* CheckDataLoss: i
    vFound,            \* CheckDataLoss: found / foundInRange
    vQueries,          \* store queries CheckDataLoss has issued
    vLog,              \* lines CheckDataLoss has printed
    vResult,           \* what CheckDataLoss returned
    report,            \* the Data Loss Report of _main
    cleanupResult      \* outcome of Cleanup

storeVars == <<maxConnections, nonIdleSessions, table, nextID, tableTouched>>
mainVars == <<mainPC, exitErr, seedI, spawnI, report, cleanupResult>>
stopVars == <<stopChan, closeCount, onceDone, onceLocked, stopPC, stopCalls,
              stopContended>>
workerVars == <<pc, lateOps, lateChecks, opsBegun, recording, benignNoRows>>
counterVars == <<totalInserts, totalUpdates, totalErrors, totalBytes,
                 insertLatencies, updateLatencies>>
v2Vars == <<engine, totalReads, totalRows, readLatencies>>
metricsVars == <<latencyMutex, snapPC, snap, lastSnap, calls>>
pctVars == <<durations, percentile, result>>
restVars == <<samples, recorded, reporter, restart, rng, globalRand, monitor,
              connMetrics>>
extVars == <<seen, restVars>>
auxVars == <<metricsVars, pctVars, reply, initCalls, extVars>>
idVars == <<insertedIDs, totalInsertedIDs>>
verifyVars == <<dlCtxDone, vPC, vCalls, vIDs, vI, vFound, vQueries, vLog, vResult>>

vars == <<cfg, v2Vars, auxVars, storeVars, mainVars, ctxDone, stopVars, wg, workerVars, partials,
          lossEvents, counterVars, idVars, verifyVars>>

Workers == 1..cfg.ConcurrentWriters
Callers == 0..NumStoppers
StopRequested == stopChan = "closed" \/ ctxDone
AllWorkersExited == \A w \in Workers : pc[w] = "exited"
\* the positions at which a worker has a statement at the store or reads
\* its reply
InFlight == {"insert_flight", "record_store", "record_count", "insert_return",
             "update_select_flight", "update_exec_flight"}

RowsOf(n) == IF n = 0 THEN {} ELSE {<<1, n>>}

\* metrics.New() and the verification, untouched
\* a sync.RWMutex nobody holds
Unlocked == [writer |-> 0, readers |-> 0]

\* the zero MetricsSnapshot
NoSnapshot == [TotalReads |-> 0, TotalInserts |-> 0, TotalUpdates |-> 0,
               TotalErrors |-> 0, TotalBytes |-> 0, TotalOperations |-> 0]

NoCalls == [reads |-> 0, inserts |-> 0, updates |-> 0, errors |-> 0, bytes |-> 0,
            snapshots |-> 0]

NoReply == [kind |-> "none"]

\* no reply of an INSERT ... RETURNING id is being read
NoRows == [first |-> 0, next |-> 0, last |-> -1, failed |-> FALSE]

\* the parts of the state a specification does not use
IdleMetrics ==
    /\ latencyMutex = Unlocked /\ snapPC = "idle" /\ snap = NoSnapshot
    /\ lastSnap = NoSnapshot /\ calls = NoCalls

IdlePercentile == durations = <<>> /\ percentile = 0 /\ result = <<>>

IdleReply == reply = [w \in 1..MaxWorkers |-> NoReply]

IdleInitialize == initCalls = 0

\* no history of counter values is kept
NoHistory == [kept |-> FALSE, held |-> {}]

\* empty latency buffers
NoSamples == [read |-> <<>>, insert |-> <<>>, update |-> <<>>]

\* the reporting goroutine not started
NoReporter == [pc |-> "idle", snapshots |-> 0]

NoRestart == [calls |-> 0, i |-> 0, running |-> FALSE]

\* the monitoring goroutine not started
NoMonitor ==
    [pc |-> "idle", polls |-> 0, failures |-> 0, callbacks |-> 0, max |-> 0,
     cancelled |-> FALSE]

\* the zero values of the three atomic.Int32
NoConnMetrics == [activeConns |-> 0, maxConns |-> 0, availableConns |-> 0]

IdleExt ==
    /\ seen = NoHistory /\ samples = NoSamples /\ recorded = NoSamples
    /\ reporter = NoReporter /\ restart = NoRestart
    /\ rng = [w \in 1..MaxWorkers |-> 0] /\ globalRand = 0
    /\ monitor = NoMonitor /\ connMetrics = NoConnMetrics

IdleAux == IdleMetrics /\ IdlePercentile /\ IdleReply /\ IdleInitialize /\ IdleExt

FreshCounters ==
    /\ totalUpdates = 0
    /\ dlCtxDone = FALSE /\ vPC = "idle" /\ vCalls = 0 /\ vIDs = <<>> /\ vI = 0
    /\ vFound = 0 /\ vQueries = 0 /\ vLog = <<>> /\ vResult = NoResult
    /\ report = [verdict |-> "pending"] /\ cleanupResult = "pending"
    /\ lossEvents = 0 /\ ctxDone = FALSE /\ exitErr = NoError
    /\ lateOps = [w \in 1..MaxWorkers |-> 0]
    /\ lateChecks = [w \in 1..MaxWorkers |-> 0]
    /\ recording = [w \in 1..MaxWorkers |-> NoRows]
    /\ benignNoRows = 0 /\ totalReads = 0 /\ totalRows = 0 /\ readLatencies = 0
    /\ updateLatencies = 0

\* main.go builds the first engine: postgres.NewLoadGenerator with metrics.New
FreshCountersAndVerify == engine = "v1" /\ FreshCounters

FreshMetricsAndVerify == FreshCountersAndVerify /\ IdleAux

\* NewLoadGenerator: no worker, the stop channel open, the Once unused
FreshEngine ==
    /\ seedI = 0 /\ spawnI = 0
    /\ stopChan = "open" /\ closeCount = 0 /\ onceDone = FALSE /\ onceLocked = FALSE
    /\ wg = 0
    /\ stopPC = [c \in Callers |-> "idle"] /\ stopCalls = [c \in Callers |-> 0]
    /\ stopContended = FALSE
    /\ pc = [w \in 1..MaxWorkers |-> "idle"]
    /\ opsBegun = 0
    /\ totalInserts = 0 /\ totalErrors = 0 /\ totalBytes = 0
    /\ insertLatencies = 0
    /\ insertedIDs = {} /\ totalInsertedIDs = 0

\* everything but the configuration and the store, as it is when _main starts
FreshProgram ==
    /\ tableTouched = FALSE
    /\ mainPC = "connect"
    /\ partials = 0
    /\ FreshEngine
    /\ FreshMetricsAndVerify

Init ==
    /\ cfg \in RunConfigs
    /\ maxConnections \in StoreCapacities
    /\ nonIdleSessions \in StoreSessions
    /\ \E n \in PreexistingRows : table = RowsOf(n) /\ nextID = n + 1
    /\ FreshProgram


(***************************************************************************)
(* The store and the environment                                           *)
(***************************************************************************)
StoreState == [table |-> table, nextID |-> nextID, insertedIDs |-> insertedIDs,
               totalInsertedIDs |-> totalInsertedIDs]

\* outcomes batchInsert of n records can have now
BatchOutcomes(n) ==
    {OkOutcome(n), RejectOutcome}
    \cup (IF partials < MaxPartial THEN PartialOutcomes(n) ELSE {})

IsPartial(o) == o.err /\ o # RejectOutcome

\* batchInsert of n records with outcome o as seedInitialData calls it: the
\* INSERT ... RETURNING id and the RecordInsertedID call for every identifier
\* read.  Initialize runs before Start, no other goroutine touches the
\* metrics or the table then, so the call is taken as a whole; the workers'
\* calls are taken statement by statement (TrackStore, TrackCount).
BatchInsert(n, o) ==
    LET st == ApplyBatch(StoreState, n, o)
    IN /\ table' = st.table
       /\ nextID' = st.nextID
       /\ insertedIDs' = st.insertedIDs
       /\ totalInsertedIDs' = st.totalInsertedIDs
       /\ partials' = IF IsPartial(o) THEN partials + 1 ELSE partials
       /\ tableTouched' = TRUE

\* ranges of rows a crash / pg_rewind / delete can take from the table
LossRanges ==
    {rg \in UNION {{<<r[2], r[2]>>, <<r[1], r[2]>>,
                    <<r[1] + (ChunkSize \div 2), r[1] + (ChunkSize \div 2) + ChunkSize - 1>>}
                   : r \in insertedIDs} :
        CountIn(table, rg[1], rg[2]) > 0}

\* rows vanish from the table before verification starts.  Nothing the client
\* does between the loss and the verification reads the lost rows, so every
\* loss during the run is represented by the same loss just before
\* CheckDataLoss is entered.
LoseRows ==
    /\ mainPC = "verify"
    /\ vPC = "idle"
    /\ lossEvents < MaxLoss
    /\ \E rg \in LossRanges : table' = RemoveRange(table, rg[1], rg[2])
    /\ lossEvents' = lossEvents + 1
    /\ UNCHANGED <<cfg, v2Vars, auxVars, maxConnections, nonIdleSessions, nextID, tableTouched,
                   mainVars, ctxDone, stopVars, wg, workerVars, partials,
                   counterVars, idVars, verifyVars>>

\* the run context reaches its deadline (Duration + 30s)
CtxExpire ==
    /\ mainPC \in {"init_create", "init_count", "seed", "start", "wait", "stop"}
    /\ ~ctxDone
    /\ ctxDone' = TRUE
    /\ UNCHANGED <<cfg, v2Vars, auxVars, storeVars, mainVars, stopVars, wg, workerVars, partials,
                   lossEvents, counterVars, idVars, verifyVars>>

(***************************************************************************)
(* _main up to Start                                                       *)
(***************************************************************************)
Exit(err) == mainPC' = "exit1" /\ exitErr' = err

\* postgres.NewConnectionManager(&cfg.DB)
MainConnect ==
    /\ mainPC = "connect"
    /\ \/ \E k \in {"ping_failed", "stats_failed"} : Exit([kind |-> k])
       \/ LET stats == GetConnectionStats(maxConnections, nonIdleSessions,
                                          cfg.MinFreeConns)
          IN IF stats.CanConnect
             THEN mainPC' = "init_create" /\ exitErr' = NoError
             ELSE Exit(InsufficientError(stats, cfg.MinFreeConns))
    /\ UNCHANGED <<cfg, v2Vars, auxVars, storeVars, seedI, spawnI, report, cleanupResult, ctxDone,
                   stopVars, wg, workerVars, partials, lossEvents, counterVars,
                   idVars, verifyVars>>

\* Initialize: CREATE TABLE IF NOT EXISTS, CREATE INDEX IF NOT EXISTS
MainInitCreate ==
    /\ mainPC = "init_create"
    /\ \/ /\ ~ctxDone
          /\ mainPC' = "init_count" /\ exitErr' = exitErr
       \/ \E k \in {"create_table", "create_indices"} : Exit([kind |-> k])
    /\ tableTouched' = TRUE
    /\ UNCHANGED <<cfg, v2Vars, auxVars, maxConnections, nonIdleSessions, table, nextID, seedI,
                   spawnI, report, cleanupResult, ctxDone, stopVars, wg, workerVars,
                   partials, lossEvents, counterVars, idVars, verifyVars>>

ShouldSeed_always(count) == TRUE

\* if count == 0 { lg.seedInitialData(ctx, 10000) }
ShouldSeed(count) == count = 0

\* Initialize: SELECT COUNT(*); seed only when the table is empty
MainInitCount ==
    /\ mainPC = "init_count"
    /\ \/ /\ ~ctxDone
          /\ mainPC' = IF ShouldSeed(Card(table)) THEN "seed" ELSE "start"
          /\ exitErr' = exitErr
       \/ Exit([kind |-> "count_records"])
    /\ UNCHANGED <<cfg, v2Vars, auxVars, storeVars, seedI, spawnI, report, cleanupResult, ctxDone,
                   stopVars, wg, workerVars, partials, lossEvents, counterVars,
                   idVars, verifyVars>>

\* seedInitialData: one pass of the loop, lg.batchInsert(ctx, records)
MainSeed ==
    /\ mainPC = "seed"
    /\ LET remaining == Min(SeedCount - seedI, SeedBatch)
       IN \E o \in (IF ctxDone THEN {RejectOutcome} ELSE BatchOutcomes(remaining)) :
            /\ BatchInsert(remaining, o)
            /\ IF o.err
               THEN Exit([kind |-> "seed"]) /\ seedI' = seedI
               ELSE /\ seedI' = seedI + SeedBatch
                    /\ mainPC' = IF seedI + SeedBatch < SeedCount THEN "seed" ELSE "start"
                    /\ exitErr' = exitErr
    /\ UNCHANGED <<cfg, v2Vars, auxVars, maxConnections, nonIdleSessions, spawnI, report,
                   cleanupResult, ctxDone, stopVars, wg, workerVars, lossEvents,
                   counterVars, verifyVars>>

\* Start: one pass of the loop (wg.Add(1); go lg.worker(ctx, i)), or its end
MainStart ==
    /\ mainPC = "start"
    /\ IF spawnI < cfg.ConcurrentWriters
       THEN /\ wg' = wg + 1
            /\ pc' = [pc EXCEPT ![spawnI + 1] = "check"]
            /\ spawnI' = spawnI + 1
            /\ mainPC' = mainPC
       ELSE /\ mainPC' = "wait"
            /\ UNCHANGED <<wg, pc, spawnI>>
    /\ UNCHANGED <<cfg, v2Vars, auxVars, storeVars, exitErr, seedI, report, cleanupResult, ctxDone,
                   stopVars, lateOps, lateChecks, opsBegun, recording, benignNoRows,
                   partials, lossEvents,
                   counterVars, idVars, verifyVars>>

\* the select on testTimer.C, sigChan and ctx.Done(), then lg.Stop() is called
MainWait ==
    /\ mainPC = "wait"
    /\ mainPC' = "stop"
    /\ stopPC' = [stopPC EXCEPT ![0] = "call"]
    /\ stopCalls' = [stopCalls EXCEPT ![0] = @ + 1]
    /\ UNCHANGED <<cfg, v2Vars, auxVars, storeVars, exitErr, seedI, spawnI, report, cleanupResult,
                   ctxDone, stopChan, closeCount, onceDone, onceLocked,
                   stopContended, wg,
                   workerVars, partials, lossEvents, counterVars, idVars, verifyVars>>


(***************************************************************************)
(* LoadGenerator.Stop: lg.stopOnce.Do(func() { close(stopChan); wg.Wait() })*)
(***************************************************************************)
\* caller c returns from Stop(); _main goes on to the final snapshot
StopReturn(c) ==
    /\ stopPC' = [stopPC EXCEPT ![c] = "returned"]
    /\ mainPC' = IF c = 0 THEN "final" ELSE mainPC

\* Once.Do: the fast path, if o.done.Load() == 0 { o.doSlow(f) }
StopEnter(c) ==
    /\ stopPC[c] = "call"
    /\ IF onceDone
       THEN StopReturn(c)
       ELSE stopPC' = [stopPC EXCEPT ![c] = "lock"] /\ mainPC' = mainPC
    /\ stopContended' = (stopContended \/ (~onceDone /\ onceLocked))
    /\ UNCHANGED <<cfg, v2Vars, auxVars, storeVars, exitErr, seedI, spawnI, report, cleanupResult,
                   ctxDone, stopChan, closeCount, onceDone, onceLocked, stopCalls,
                   wg, workerVars, partials, lossEvents, counterVars, idVars,
                   verifyVars>>

\* Once.doSlow: o.m.Lock(); if done is still 0, run f up to wg.Wait():
\* close(lg.stopChan)
StopLock(c) ==
    /\ stopPC[c] = "lock"
    /\ OnceMayEnter(onceLocked)
    /\ IF onceDone
       THEN /\ StopReturn(c)
            /\ UNCHANGED <<stopChan, closeCount, onceLocked>>
       ELSE /\ onceLocked' = TRUE
            /\ stopChan' = "closed"
            /\ closeCount' = closeCount + 1
            /\ stopPC' = [stopPC EXCEPT ![c] = "wait"]
            /\ mainPC' = mainPC
    /\ UNCHANGED <<cfg, v2Vars, auxVars, storeVars, exitErr, seedI, spawnI, report, cleanupResult,
                   ctxDone, onceDone, stopCalls, stopContended, wg, workerVars,
                   partials,
                   lossEvents, counterVars, idVars, verifyVars>>

\* f: lg.wg.Wait() returns; then o.done.Store(1) and o.m.Unlock()
StopWait(c) ==
    /\ stopPC[c] = "wait"
    /\ WaitGroupDone(wg)
    /\ onceDone' = TRUE
    /\ onceLocked' = FALSE
    /\ StopReturn(c)
    /\ UNCHANGED <<cfg, v2Vars, auxVars, storeVars, exitErr, seedI, spawnI, report, cleanupResult,
                   ctxDone, stopChan, closeCount, stopCalls, stopContended, wg,
                   workerVars,
                   partials, lossEvents, counterVars, idVars, verifyVars>>

(***************************************************************************)
(* Metrics: the statements of RecordInsert, RecordUpdate and RecordRead    *)
(*                                                                         *)
(* A Record* call is m.total<kind>.Add(1), m.totalBytes.Add(bytes),        *)
(* m.latencyMutex.Lock(), the append with the trim, and Unlock().  The     *)
(* first statement belongs to the step in which the caller enters the      *)
(* call; the others are steps of their own, at the positions <kind>_bytes, *)
(* <kind>_lock and <kind>_append of the caller.                            *)
(***************************************************************************)
\* m.totalErrors.Add(1)
RecordError_double == totalErrors' = totalErrors + 2

RecordError == totalErrors' = totalErrors + 1

\* append(latencies, latency), then only the last 10000 samples are kept
AppendSample(len) == IF len + 1 > LatencyCap THEN LatencyCap ELSE len + 1

\* the run is one of the second engine, LoadGeneratorV2 with MetricsV2
IsV2 == engine = "v2"

\* an insert that is accounted with the size of one row
BytesArg_flatBytes(kind, c, bytesRead) ==
    IF kind = "insert" THEN (IF IsV2 THEN V2InsertRowBytes ELSE InsertRowBytes)
    ELSE IF kind = "update" THEN (IF IsV2 THEN V2UpdateBytes ELSE UpdateBytes)
    ELSE bytesRead

\* the byte argument the engines pass for an operation of a kind: the
\* estimates len(records) * 500 (600) and 400 (500), and for a read the
\* bytesRead its read function has summed up
BytesArg(kind, c, bytesRead) ==
    IF kind = "insert"
    THEN c.BatchSize * (IF IsV2 THEN V2InsertRowBytes ELSE InsertRowBytes)
    ELSE IF kind = "update" THEN (IF IsV2 THEN V2UpdateBytes ELSE UpdateBytes)
    ELSE bytesRead

AtomicAdd_store(value, delta) == delta

\* atomic.Int64.Add
AtomicAdd(value, delta) == value + delta

MayLock_ignoreReaders(mutex) == mutex.writer = 0

\* sync.RWMutex: Lock succeeds when nobody holds the mutex
MayLock(mutex) == mutex.writer = 0 /\ mutex.readers = 0

\* a Record* call that returned with the mutex still held
Unlock_forgotten(mutex) == mutex

\* sync.RWMutex: Unlock
Unlock(mutex) == [mutex EXCEPT !.writer = 0]

\* sync.RWMutex: RLock succeeds when no writer holds the mutex
MayRLock(mutex) == mutex.writer = 0

\* the kind of the Record* call worker w is in
KindOf(position) ==
    IF position \in {"rr_bytes", "rr_lock", "rr_append"} THEN "read"
    ELSE IF position \in {"ri_bytes", "ri_lock", "ri_append"} THEN "insert"
    ELSE IF position \in {"ru_bytes", "ru_lock", "ru_append"} THEN "update"
    ELSE "none"

AtBytes(kind) == IF kind = "read" THEN "rr_bytes" ELSE IF kind = "insert" THEN "ri_bytes" ELSE "ru_bytes"
AtLock(kind) == IF kind = "read" THEN "rr_lock" ELSE IF kind = "insert" THEN "ri_lock" ELSE "ru_lock"
AtAppend(kind) == IF kind = "read" THEN "rr_append" ELSE IF kind = "insert" THEN "ri_append" ELSE "ru_append"

\* worker w is inside a Record* call
Recording(w) == KindOf(pc[w]) # "none"

\* the values the five counters hold together
Counters == [TotalReads |-> totalReads, TotalInserts |-> totalInserts,
             TotalUpdates |-> totalUpdates, TotalErrors |-> totalErrors,
             TotalBytes |-> totalBytes]

\* the history of a GetSnapshot call: the values the counters have held
\* since the call was entered, kept until the next call is entered.  Only
\* SpecCut keeps it.
Observed(held) ==
    IF seen.kept /\ snapPC # "idle"
    THEN [seen EXCEPT !.held = @ \cup {held}]
    ELSE seen

\* the rows of a SELECT of the second engine as the read function holds
\* them: the pattern, the rows it has still to scan, the bytes summed up so
\* far and whether the reading ends with an error
RowsReply(readPattern, left, bytes, failed) ==
    [kind |-> "rows", readPattern |-> readPattern, left |-> left, bytes |-> bytes,
     failed |-> failed]

\* bytesRead of the read worker w has made
Measured(w) == IF reply[w].kind = "rows" THEN reply[w].bytes ELSE 0

\* m.totalBytes.Add(bytes)
RecordAddBytes(w) ==
    /\ Recording(w) /\ pc[w] = AtBytes(KindOf(pc[w]))
    /\ totalBytes' = AtomicAdd(totalBytes, BytesArg(KindOf(pc[w]), cfg, Measured(w)))
    /\ pc' = [pc EXCEPT ![w] = AtLock(KindOf(pc[w]))]
    /\ reply' = [reply EXCEPT ![w] = IF @.kind = "rows" THEN NoReply ELSE @]
    /\ UNCHANGED <<cfg, v2Vars, metricsVars, pctVars, initCalls, restVars,
                   storeVars, mainVars, ctxDone, stopVars, wg,
                   lateOps, lateChecks, opsBegun, recording, benignNoRows, partials,
                   lossEvents, totalInserts, totalUpdates, totalErrors,
                   insertLatencies, updateLatencies, idVars, verifyVars>>
    /\ seen' = Observed(Counters')

\* m.latencyMutex.Lock()
RecordLock(w) ==
    /\ Recording(w) /\ pc[w] = AtLock(KindOf(pc[w]))
    /\ MayLock(latencyMutex)
    /\ latencyMutex' = [latencyMutex EXCEPT !.writer = w]
    /\ pc' = [pc EXCEPT ![w] = AtAppend(KindOf(pc[w]))]
    /\ UNCHANGED <<cfg, v2Vars, snapPC, snap, lastSnap, calls, pctVars, reply,
                   initCalls, extVars, storeVars, mainVars, ctxDone, stopVars, wg, lateOps,
                   lateChecks, opsBegun, recording, benignNoRows, partials,
                   lossEvents, counterVars, idVars, verifyVars>>

\* the append, the trim to the last 10000 samples, m.latencyMutex.Unlock();
\* the call returns and with it performInsert, performUpdate or performRead
RecordAppend(w) ==
    /\ Recording(w) /\ pc[w] = AtAppend(KindOf(pc[w]))
    /\ readLatencies' = IF KindOf(pc[w]) = "read" THEN AppendSample(readLatencies)
                        ELSE readLatencies
    /\ insertLatencies' = IF KindOf(pc[w]) = "insert" THEN AppendSample(insertLatencies)
                          ELSE insertLatencies
    /\ updateLatencies' = IF KindOf(pc[w]) = "update" THEN AppendSample(updateLatencies)
                          ELSE updateLatencies
    /\ latencyMutex' = Unlock(latencyMutex)
    /\ pc' = [pc EXCEPT ![w] = "check"]
    /\ UNCHANGED <<cfg, engine, totalReads, totalRows, snapPC, snap, lastSnap, calls,
                   pctVars, reply, initCalls, extVars, storeVars, mainVars, ctxDone, stopVars,
                   wg, lateOps, lateChecks, opsBegun, recording, benignNoRows,
                   partials, lossEvents, totalInserts, totalUpdates, totalErrors,
                   totalBytes, idVars, verifyVars>>

\* the statements of a Record* call after the first
RecordCall(w) == RecordAddBytes(w) \/ RecordLock(w) \/ RecordAppend(w)

(***************************************************************************)
(* LoadGenerator.worker, performInsert, performUpdate                      *)
(*                                                                         *)
(* Every statement sent to the store, every identifier read from its reply *)
(* and every statement of the metrics call that follows is a step.         *)
(***************************************************************************)
AfterOperation_abort(failed) == IF failed THEN "exited" ELSE "check"

\* performInsert and performUpdate return nothing: whatever the outcome of
\* the operation, the worker goes back to the top of its loop
AfterOperation(failed) == "check"

\* what the SELECT id ... ORDER BY RANDOM() LIMIT 1 of performUpdate can give
SelectOutcomes(rows) ==
    {"failed"} \cup (IF Card(rows) = 0 THEN {"no_rows"} ELSE {"id"})

\* what the UPDATE ... WHERE id = $6 can give: an error, or no error with
\* one row or with no row changed (the result is not inspected)
UpdateOutcomes == {"failed", "matched", "no_match"}

Late(w) == [lateOps EXCEPT ![w] = IF StopRequested THEN @ + 1 ELSE @]

\* the select at the top of the loop, then the die roll
WorkerCheck(w) ==
    /\ pc[w] = "check"
    /\ IF WorkerShouldExit(ctxDone, stopChan = "closed")
       THEN /\ pc' = [pc EXCEPT ![w] = "exited"]
            /\ wg' = wg - 1
            /\ UNCHANGED <<opsBegun, lateChecks>>
       ELSE /\ opsBegun < MaxOps
            /\ \E roll \in Rolls : pc' = [pc EXCEPT ![w] = PickOperation(roll, cfg)]
            /\ opsBegun' = opsBegun + 1
            /\ lateChecks' = [lateChecks EXCEPT ![w] = IF StopRequested THEN @ + 1 ELSE @]
            /\ wg' = wg
    /\ UNCHANGED <<cfg, v2Vars, auxVars, storeVars, mainVars, ctxDone, stopVars, lateOps, recording,
                   benignNoRows, partials, lossEvents, counterVars, idVars,
                   verifyVars>>

\* performInsert up to QueryContext: a context that is already done makes
\* database/sql return ctx.Err() without sending the statement
WorkerInsertBegin(w) ==
    /\ pc[w] = "insert"
    /\ IF ctxDone
       THEN /\ RecordError
            /\ pc' = [pc EXCEPT ![w] = AfterOperation(TRUE)]
            /\ lateOps' = lateOps
       ELSE /\ pc' = [pc EXCEPT ![w] = "insert_flight"]
            /\ lateOps' = Late(w)
            /\ totalErrors' = totalErrors
    /\ UNCHANGED <<cfg, v2Vars, auxVars, storeVars, mainVars, ctxDone, stopVars, wg, lateChecks,
                   opsBegun, recording, benignNoRows, partials, lossEvents,
                   totalInserts, totalUpdates, totalBytes, insertLatencies,
                   updateLatencies, idVars, verifyVars>>

\* the rows of a reply as batchInsert holds them: the first identifier of
\* the batch, the next one rows.Next() gives, the last one it gives, and
\* whether the reading ends with an error
RowsToRead(lo, o) ==
    [first |-> lo, next |-> lo, last |-> lo + o.recorded - 1, failed |-> o.err]

\* the store has executed the INSERT ... RETURNING id with outcome o, and
\* QueryContext returns to batchInsert
InsertReply(w, o) ==
    LET st == ApplyBatch(StoreState, cfg.BatchSize, o)
    IN /\ table' = st.table
       /\ nextID' = st.nextID
       /\ partials' = IF IsPartial(o) THEN partials + 1 ELSE partials
       /\ tableTouched' = TRUE
       /\ recording' = [recording EXCEPT ![w] = RowsToRead(nextID, o)]
       /\ pc' = [pc EXCEPT ![w] = IF o.recorded > 0 THEN "record_store"
                                  ELSE "insert_return"]

\* the reply to the INSERT of worker w arrives
WorkerInsertReply(w) ==
    /\ pc[w] = "insert_flight"
    /\ \E o \in BatchOutcomes(cfg.BatchSize) : InsertReply(w, o)
    /\ UNCHANGED <<cfg, v2Vars, auxVars, maxConnections, nonIdleSessions, mainVars, ctxDone,
                   stopVars, wg, lateOps, lateChecks, opsBegun, benignNoRows,
                   lossEvents, counterVars, idVars, verifyVars>>

StoreID_lastWins(S, id) == {<<id, id>>}

\* m.insertedIDs.Store(id, true): the key is added to the map
StoreID(S, id) ==
    IF \E r \in S : r[1] <= id /\ id <= r[2]
    THEN S
    ELSE LET left == {r \in S : r[2] = id - 1}
             right == {r \in S : r[1] = id + 1}
             lo == IF left = {} THEN id ELSE (CHOOSE r \in left : TRUE)[1]
             hi == IF right = {} THEN id ELSE (CHOOSE r \in right : TRUE)[2]
         IN (S \ (left \cup right)) \cup {<<lo, hi>>}

\* batchInsert: rows.Next(), rows.Scan(&id), then the first statement of
\* RecordInsertedID(id)
TrackStore(w) ==
    /\ pc[w] = "record_store"
    /\ insertedIDs' = StoreID(insertedIDs, recording[w].next)
    /\ pc' = [pc EXCEPT ![w] = "record_count"]
    /\ UNCHANGED <<cfg, v2Vars, auxVars, storeVars, mainVars, ctxDone, stopVars, wg, lateOps,
                   lateChecks, opsBegun, recording, benignNoRows, partials,
                   lossEvents, counterVars, totalInsertedIDs, verifyVars>>

\* the second statement of RecordInsertedID: m.totalInsertedIDs.Add(1)
TrackCount(w) ==
    /\ pc[w] = "record_count"
    /\ totalInsertedIDs' = AtomicAdd(totalInsertedIDs, 1)
    /\ recording' = [recording EXCEPT ![w].next = @ + 1]
    /\ pc' = [pc EXCEPT ![w] = IF recording[w].next = recording[w].last
                               THEN "insert_return" ELSE "record_store"]
    /\ UNCHANGED <<cfg, v2Vars, auxVars, storeVars, mainVars, ctxDone, stopVars, wg, lateOps,
                   lateChecks, opsBegun, benignNoRows, partials, lossEvents,
                   counterVars, insertedIDs, verifyVars>>

\* whether batchInsert returns an error once the reading of the rows has
\* ended: the error that ended it (rows.Scan, rows.Err()); after the last
\* identifier, rows.Next() is false at the end of the rows, rows.Err() nil,
\* or false because it finds the context done, rows.Err() its error
RowsErr(w) ==
    IF recording[w].failed THEN {TRUE}
    ELSE IF ctxDone THEN {TRUE, FALSE}
    ELSE {FALSE}

\* the last rows.Next() and rows.Err(): batchInsert returns to performInsert,
\* which calls RecordError(), or enters RecordInsert(latency, len(records)*500)
\* and does its first statement, m.totalInserts.Add(1)
InsertReturn(w) ==
    /\ pc[w] = "insert_return"
    /\ \E err \in RowsErr(w) :
          /\ IF err
             THEN /\ RecordError
                  /\ totalInserts' = totalInserts
                  /\ pc' = [pc EXCEPT ![w] = AfterOperation(TRUE)]
             ELSE /\ totalInserts' = AtomicAdd(totalInserts, 1)
                  /\ totalErrors' = totalErrors
                  /\ pc' = [pc EXCEPT ![w] = AtBytes("insert")]
          /\ partials' = IF err /\ ~recording[w].failed THEN partials + 1
                         ELSE partials
    /\ recording' = [recording EXCEPT ![w] = NoRows]

WorkerInsertFinish(w) ==
    /\ InsertReturn(w)
    /\ UNCHANGED <<cfg, v2Vars, auxVars, storeVars, mainVars, ctxDone, stopVars, wg,
                   lateOps, lateChecks, opsBegun, benignNoRows,
                   lossEvents, totalUpdates, totalBytes, insertLatencies,
                   updateLatencies, idVars, verifyVars>>

\* performUpdate up to the SELECT id ... ORDER BY RANDOM() LIMIT 1
WorkerUpdateBegin(w) ==
    /\ pc[w] = "update"
    /\ IF ctxDone
       THEN /\ RecordError
            /\ pc' = [pc EXCEPT ![w] = AfterOperation(TRUE)]
            /\ lateOps' = lateOps
       ELSE /\ pc' = [pc EXCEPT ![w] = "update_select_flight"]
            /\ lateOps' = Late(w)
            /\ totalErrors' = totalErrors
    /\ UNCHANGED <<cfg, v2Vars, auxVars, storeVars, mainVars, ctxDone, stopVars, wg, lateChecks,
                   opsBegun, recording, benignNoRows, partials, lossEvents,
                   totalInserts, totalUpdates, totalBytes, insertLatencies,
                   updateLatencies, idVars, verifyVars>>

\* the SELECT returns: sql.ErrNoRows is benign, another error is recorded,
\* an identifier leads to the UPDATE ... WHERE id = $6
WorkerUpdateSelected(w) ==
    /\ pc[w] = "update_select_flight"
    /\ \E out \in SelectOutcomes(table) :
        \/ /\ out = "no_rows"
           /\ benignNoRows' = benignNoRows + 1
           /\ pc' = [pc EXCEPT ![w] = AfterOperation(FALSE)]
           /\ UNCHANGED <<totalErrors, lateOps>>
        \/ /\ out = "failed"
           /\ RecordError
           /\ pc' = [pc EXCEPT ![w] = AfterOperation(TRUE)]
           /\ UNCHANGED <<benignNoRows, lateOps>>
        \/ /\ out = "id"
           /\ benignNoRows' = benignNoRows
           /\ IF ctxDone
              THEN /\ RecordError
                   /\ pc' = [pc EXCEPT ![w] = AfterOperation(TRUE)]
                   /\ lateOps' = lateOps
              ELSE /\ pc' = [pc EXCEPT ![w] = "update_exec_flight"]
                   /\ lateOps' = Late(w)
                   /\ totalErrors' = totalErrors
    /\ tableTouched' = TRUE
    /\ UNCHANGED <<cfg, v2Vars, auxVars, maxConnections, nonIdleSessions, table, nextID, mainVars,
                   ctxDone, stopVars, wg, lateChecks, opsBegun, recording,
                   partials, lossEvents, totalInserts, totalUpdates, totalBytes,
                   insertLatencies, updateLatencies, idVars, verifyVars>>

\* the UPDATE returns to performUpdate, which calls RecordError(), or enters
\* RecordUpdate(latency, 400) and does its first statement,
\* m.totalUpdates.Add(1)
WorkerUpdateFinish(w) ==
    /\ pc[w] = "update_exec_flight"
    /\ \E out \in UpdateOutcomes :
        IF out = "failed"
        THEN /\ RecordError
             /\ totalUpdates' = totalUpdates
             /\ pc' = [pc EXCEPT ![w] = AfterOperation(TRUE)]
        ELSE /\ totalUpdates' = AtomicAdd(totalUpdates, 1)
             /\ totalErrors' = totalErrors
             /\ pc' = [pc EXCEPT ![w] = AtBytes("update")]
    /\ UNCHANGED <<cfg, v2Vars, auxVars, storeVars, mainVars, ctxDone, stopVars, wg, lateOps,
                   lateChecks, opsBegun, recording, benignNoRows, partials,
                   lossEvents, totalInserts, totalBytes, insertLatencies,
                   updateLatencies, idVars, verifyVars>>

\* the steps of worker w inside performInsert
PerformInsert(w) ==
    \/ WorkerInsertBegin(w) \/ WorkerInsertReply(w)
    \/ TrackStore(w) \/ TrackCount(w)
    \/ WorkerInsertFinish(w)

\* the steps of worker w inside performUpdate
PerformUpdate(w) ==
    WorkerUpdateBegin(w) \/ WorkerUpdateSelected(w) \/ WorkerUpdateFinish(w)



(***************************************************************************)
(* _main after Stop: final snapshot, CheckDataLoss, report, Cleanup        *)
(***************************************************************************)
\* finalSnapshot := m.GetSnapshot(); the data-loss context is created
MainFinal ==
    /\ mainPC = "final"
    /\ mainPC' = "verify"
    /\ UNCHANGED <<cfg, v2Vars, auxVars, storeVars, exitErr, seedI, spawnI, report, cleanupResult,
                   ctxDone, stopVars, wg, workerVars, partials, lossEvents,
                   counterVars, idVars, verifyVars>>

\* the data-loss context reaches its deadline
DataLossCtxExpire ==
    /\ mainPC = "verify"
    /\ vPC # "done"
    /\ ~dlCtxDone
    /\ dlCtxDone' = TRUE
    /\ UNCHANGED <<cfg, v2Vars, auxVars, storeVars, mainVars, ctxDone, stopVars, wg, workerVars,
                   partials, lossEvents, counterVars, idVars, vPC, vCalls, vIDs,
                   vI, vFound, vQueries, vLog, vResult>>

\* the orders in which GetInsertedIDs (sync.Map.Range) may list the runs
SliceOrders(ids) == {AscendingRuns(ids), Reverse(AscendingRuns(ids))}

Finish(res, lines) ==
    /\ vResult' = res
    /\ vLog' = vLog \o lines
    /\ vPC' = "done"

\* CheckDataLoss from its entry to the choice of the strategy
VerifyStart ==
    /\ mainPC = "verify"
    /\ vPC = "idle"
    /\ vCalls' = vCalls + 1
    /\ \E ids \in SliceOrders(insertedIDs) :
        /\ vIDs' = ids
        /\ IF SliceLen(ids) = 0
           THEN Finish([total |-> 0, lost |-> 0, err |-> "nil"], <<>>)
           ELSE /\ vResult' = vResult
                /\ IF UseOptimized(SliceLen(ids))
                   THEN vPC' = "range_check" /\ vLog' = vLog \o <<"using_range">>
                   ELSE vPC' = "chunk_check" /\ vLog' = vLog
    /\ UNCHANGED <<cfg, v2Vars, auxVars, storeVars, mainVars, ctxDone, stopVars, wg, workerVars,
                   partials, lossEvents, counterVars, idVars, dlCtxDone, vI,
                   vFound, vQueries>>

\* the select on ctx.Done() at the top of the chunk loop
VerifyChunkCheck ==
    /\ vPC = "chunk_check"
    /\ IF dlCtxDone
       THEN Finish(CancelResult(SliceLen(vIDs), vFound), <<>>)
       ELSE vPC' = "chunk_query" /\ UNCHANGED <<vResult, vLog>>
    /\ UNCHANGED <<cfg, v2Vars, auxVars, storeVars, mainVars, ctxDone, stopVars, wg, workerVars,
                   partials, lossEvents, counterVars, idVars, dlCtxDone, vCalls,
                   vIDs, vI, vFound, vQueries>>

\* SELECT COUNT(*) ... WHERE id IN (batch); found += count; after the last
\* chunk the result is returned.  A context that is already done fails the
\* call before the statement is sent.
VerifyChunkQuery ==
    /\ vPC = "chunk_query"
    /\ LET n == SliceLen(vIDs)
           end == ChunkEnd(vI, n)
           count == ChunkCount(vIDs, 0, vI, end, table)
       IN \/ /\ dlCtxDone
             /\ Finish(QueryFailedResult(n, vFound), <<>>)
             /\ UNCHANGED <<vI, vFound, vQueries>>
          \/ /\ ~dlCtxDone
             /\ Finish(QueryFailedResult(n, vFound), <<>>)
             /\ vQueries' = vQueries + 1
             /\ UNCHANGED <<vI, vFound>>
          \/ /\ ~dlCtxDone
             /\ vQueries' = vQueries + 1
             /\ vFound' = vFound + count
             /\ vI' = NextChunk(vI)
             /\ IF NextChunk(vI) < n
                THEN vPC' = "chunk_check" /\ UNCHANGED <<vResult, vLog>>
                ELSE Finish(ChunkedResult(n, vFound + count), <<"complete">>)
    /\ UNCHANGED <<cfg, v2Vars, auxVars, storeVars, mainVars, ctxDone, stopVars, wg, workerVars,
                   partials, lossEvents, counterVars, idVars, dlCtxDone, vCalls,
                   vIDs>>

\* checkDataLossOptimized: min and max are found, then the select on ctx.Done()
VerifyRangeCheck ==
    /\ vPC = "range_check"
    /\ IF dlCtxDone
       THEN Finish(CancelResult(SliceLen(vIDs), vFound), <<>>)
       ELSE vPC' = "range_query" /\ UNCHANGED <<vResult, vLog>>
    /\ UNCHANGED <<cfg, v2Vars, auxVars, storeVars, mainVars, ctxDone, stopVars, wg, workerVars,
                   partials, lossEvents, counterVars, idVars, dlCtxDone, vCalls,
                   vIDs, vI, vFound, vQueries>>

\* SELECT COUNT(*) ... WHERE id >= minID AND id <= maxID, then the result
VerifyRangeQuery ==
    /\ vPC = "range_query"
    /\ LET n == SliceLen(vIDs)
           ids == {vIDs[k] : k \in 1..Len(vIDs)}
           foundInRange == RangeCount(table, MinID(ids), MaxID(ids))
       IN \/ /\ dlCtxDone
             /\ Finish(QueryFailedResult(n, vFound), <<>>)
             /\ UNCHANGED <<vFound, vQueries>>
          \/ /\ ~dlCtxDone
             /\ Finish(QueryFailedResult(n, vFound), <<>>)
             /\ vQueries' = vQueries + 1
             /\ vFound' = vFound
          \/ /\ ~dlCtxDone
             /\ vQueries' = vQueries + 1
             /\ vFound' = foundInRange
             /\ Finish(OptimizedResult(n, foundInRange),
                       OptimizedMessages(n, foundInRange))
    /\ UNCHANGED <<cfg, v2Vars, auxVars, storeVars, mainVars, ctxDone, stopVars, wg, workerVars,
                   partials, lossEvents, counterVars, idVars, dlCtxDone, vCalls,
                   vIDs, vI>>

\* what _main prints for the result of CheckDataLoss: the warning that the
\* check failed, or the Data Loss Report
ReportOf(res) ==
    IF res.err = "nil" THEN DataLossReport(res) ELSE [verdict |-> "check_failed"]

\* _main prints the warning or the Data Loss Report
MainReport ==
    /\ mainPC = "verify"
    /\ vPC = "done"
    /\ report' = ReportOf(vResult)
    /\ mainPC' = "cleanup"
    /\ UNCHANGED <<cfg, v2Vars, auxVars, storeVars, exitErr, seedI, spawnI, cleanupResult, ctxDone,
                   stopVars, wg, workerVars, partials, lossEvents, counterVars,
                   idVars, verifyVars>>

AfterCleanup_fatal(failed) == IF failed THEN "exit" ELSE "done"

\* "Warning: Cleanup failed" or "Test data table deleted successfully", then
\* "Test completed successfully!" in both cases
AfterCleanup(failed) == "done"

\* lg.Cleanup: DROP TABLE IF EXISTS; a failure is only a warning
MainCleanup ==
    /\ mainPC = "cleanup"
    /\ \/ table' = {} /\ cleanupResult' = "dropped"
       \/ table' = table /\ cleanupResult' = "failed"
    /\ mainPC' = AfterCleanup(cleanupResult' = "failed")
    /\ UNCHANGED <<cfg, v2Vars, auxVars, maxConnections, nonIdleSessions, nextID, tableTouched,
                   exitErr, seedI, spawnI, report, ctxDone, stopVars, wg,
                   workerVars, partials, lossEvents, counterVars, idVars,
                   verifyVars>>

(***************************************************************************)
(* The orchestrator run                                                    *)
(***************************************************************************)
MainStop == StopEnter(0) \/ StopLock(0) \/ StopWait(0)

Worker ==
    \E w \in Workers :
        \/ WorkerCheck(w)
        \/ PerformInsert(w)
        \/ PerformUpdate(w)
        \/ RecordCall(w)

Next ==
    \/ MainConnect \/ MainInitCreate \/ MainInitCount \/ MainSeed
    \/ MainStart \/ MainWait \/ MainStop
    \/ Worker
    \/ CtxExpire \/ LoseRows
    \/ MainFinal \/ DataLossCtxExpire
    \/ VerifyStart \/ VerifyChunkCheck \/ VerifyChunkQuery
    \/ MainReport \/ MainCleanup

Spec == Init /\ [][Next]_vars


(***************************************************************************)
(* Stop() under several concurrent callers                                 *)
(*                                                                         *)
(* The run as above from Start on, with further goroutines that call       *)
(* lg.Stop() at any time after Start has returned, each several times.     *)
(***************************************************************************)
MaxStopCalls == 2    \* Stop() calls per extra caller

ExtraStopCall(c) ==
    /\ mainPC \in {"wait", "stop", "final"}
    /\ stopPC[c] \in {"idle", "returned"}
    /\ stopCalls[c] < MaxStopCalls
    /\ stopPC' = [stopPC EXCEPT ![c] = "call"]
    /\ stopCalls' = [stopCalls EXCEPT ![c] = @ + 1]
    /\ UNCHANGED <<cfg, v2Vars, auxVars, storeVars, mainVars, ctxDone, stopChan, closeCount,
                   onceDone, onceLocked, stopContended, wg, workerVars, partials,
                   lossEvents, counterVars, idVars, verifyVars>>

\* Initialize has returned on a table that already held rows.  To Start,
\* worker and Stop a batch that fails part-way is a failed batch like a
\* rejected one, so part-way failures are left to the other specifications.
InitStop ==
    /\ cfg \in RunConfigs
    /\ maxConnections \in StoreCapacities
    /\ nonIdleSessions = maxConnections - cfg.MinFreeConns
    /\ \E n \in PreexistingRows \ {0} : table = RowsOf(n) /\ nextID = n + 1
    /\ tableTouched = TRUE
    /\ mainPC = "start"
    /\ partials = MaxPartial
    /\ FreshEngine
    /\ FreshMetricsAndVerify

AnyStop == \E c \in Callers : StopEnter(c) \/ StopLock(c) \/ StopWait(c)
ExtraStop == \E c \in 1..NumStoppers : ExtraStopCall(c)

NextStop ==
    \/ MainStart \/ MainWait
    \/ AnyStop \/ ExtraStop
    \/ Worker
    \/ CtxExpire

SpecStop == InitStop /\ [][NextStop]_vars

\* the steps of one worker goroutine, every store statement returning
WorkerStep(w) ==
    \/ WorkerCheck(w)
    \/ PerformInsert(w)
    \/ PerformUpdate(w)
    \/ RecordCall(w)

\* the steps of one Stop() call
StopStep(c) == StopEnter(c) \/ StopLock(c) \/ StopWait(c)

\* the scheduler runs every goroutine that can take a step, and a statement
\* sent to the store returns; when the timer fires, a signal arrives, the
\* deadline passes or a further goroutine calls Stop() is left open
FairScheduling ==
    /\ WF_vars(MainStart)
    /\ \A w \in 1..MaxWorkers : WF_vars(WorkerStep(w))
    /\ \A c \in 0..NumStoppers : WF_vars(StopStep(c))

SpecStopFair == InitStop /\ [][NextStop]_vars /\ FairScheduling

(***************************************************************************)
(* SpecRestart: Start() called again on a stopped engine                   *)
(*                                                                         *)
(* The run from Start to the return of Stop(), and then further calls of   *)
(* lg.Start(ctx) on the same LoadGenerator.  A worker slot of the model is *)
(* taken by a new goroutine once the goroutine before it has exited.       *)
(***************************************************************************)
\* Start() calls made after Stop() has returned
MaxRestarts == 1

\* a Start that makes a new stop channel
StopChanAtStart_fresh(chan) == "open"

\* Start does not assign lg.stopChan: it is made once, in NewLoadGenerator
StopChanAtStart(chan) == chan

\* lg.Start(ctx) is called after lg.Stop() has returned
RestartBegin ==
    /\ stopPC[0] = "returned"
    /\ ~restart.running
    /\ restart.calls < MaxRestarts
    /\ restart' = [calls |-> restart.calls + 1, i |-> 0, running |-> TRUE]
    /\ stopChan' = StopChanAtStart(stopChan)
    /\ UNCHANGED <<cfg, v2Vars, metricsVars, pctVars, reply, initCalls, seen,
                   samples, recorded, reporter, rng, globalRand, monitor,
                   connMetrics, storeVars, mainVars, ctxDone, closeCount, onceDone,
                   onceLocked, stopPC, stopCalls, stopContended, wg, workerVars,
                   partials, lossEvents, counterVars, idVars, verifyVars>>

\* one pass of the loop of that Start (wg.Add(1); go lg.worker(ctx, i)), or
\* its end
RestartSpawn ==
    /\ restart.running
    /\ IF restart.i < cfg.ConcurrentWriters
       THEN /\ pc[restart.i + 1] = "exited"
            /\ wg' = wg + 1
            /\ pc' = [pc EXCEPT ![restart.i + 1] = "check"]
            /\ restart' = [restart EXCEPT !.i = @ + 1]
       ELSE /\ restart' = [restart EXCEPT !.running = FALSE]
            /\ UNCHANGED <<wg, pc>>
    /\ UNCHANGED <<cfg, v2Vars, metricsVars, pctVars, reply, initCalls, seen,
                   samples, recorded, reporter, rng, globalRand, monitor,
                   connMetrics, storeVars, mainVars, ctxDone, stopVars, lateOps,
                   lateChecks, opsBegun, recording, benignNoRows, partials,
                   lossEvents, counterVars, idVars, verifyVars>>

Restart == RestartBegin \/ RestartSpawn

NextRestart ==
    \/ MainStart \/ MainWait \/ MainStop
    \/ Worker
    \/ CtxExpire
    \/ Restart

SpecRestart == InitStop /\ [][NextRestart]_vars

(***************************************************************************)
(* CheckDataLoss after long runs                                           *)
(*                                                                         *)
(* The initial states are the states _main is in when it calls             *)
(* CheckDataLoss after a run of k successful batches of 9000 rows (on a    *)
(* seeded or a pre-populated table), one batch of which may have failed    *)
(* part-way.  They are built with ApplyBatch, the operator the worker      *)
(* actions use.                                                            *)
(***************************************************************************)
LongRunConfigs == {Config(1, b, 0, 70, 30, 5) : b \in LongRunBatchSizes}

RECURSIVE AfterBatches(_, _, _)
AfterBatches(st, n, k) ==
    IF k = 0 THEN st ELSE AfterBatches(ApplyBatch(st, n, OkOutcome(n)), n, k - 1)

EmptyRun(rows) ==
    [table |-> RowsOf(rows), nextID |-> rows + 1, insertedIDs |-> {},
     totalInsertedIDs |-> 0]

\* the failed batch of a long run: after how many good batches, and how
Faults(n, k) ==
    {[at |-> 0, o |-> RejectOutcome]}
    \cup {[at |-> j, o |-> o] : j \in {0, 1} \cap 0..k, o \in PartialOutcomes(n)}

LongRun(rows, n, k, f) ==
    LET st0 == EmptyRun(rows)
        st1 == IF rows = 0
               THEN AfterBatches(st0, SeedBatch, SeedCount \div SeedBatch)
               ELSE st0
        st2 == AfterBatches(st1, n, f.at)
        st3 == ApplyBatch(st2, n, f.o)
    IN AfterBatches(st3, n, k - f.at)

InitVerify ==
    /\ cfg \in LongRunConfigs
    /\ maxConnections \in StoreCapacities
    /\ nonIdleSessions = maxConnections - cfg.MinFreeConns
    /\ \E rows \in PreexistingRows, k \in 0..MaxBatches :
         \E f \in Faults(cfg.BatchSize, k) :
            LET st == LongRun(rows, cfg.BatchSize, k, f)
            IN /\ table = st.table
               /\ nextID = st.nextID
               /\ insertedIDs = st.insertedIDs
               /\ totalInsertedIDs = st.totalInsertedIDs
               /\ seedI = IF rows = 0 THEN SeedCount ELSE 0
               /\ opsBegun = k + (IF f.o = RejectOutcome THEN 0 ELSE 1)
               /\ partials = IF f.o = RejectOutcome THEN 0 ELSE 1
               /\ totalInserts = k
               /\ insertLatencies = Min(k, LatencyCap)
               /\ totalErrors = IF f.o = RejectOutcome THEN 0 ELSE 1
               /\ totalBytes = k * cfg.BatchSize * InsertRowBytes
    /\ tableTouched = TRUE
    /\ mainPC = "verify"
    /\ spawnI = cfg.ConcurrentWriters
    /\ stopChan = "closed" /\ closeCount = 1 /\ onceDone = TRUE /\ onceLocked = FALSE
    /\ wg = 0
    /\ stopPC = [c \in Callers |-> IF c = 0 THEN "returned" ELSE "idle"]
    /\ stopCalls = [c \in Callers |-> IF c = 0 THEN 1 ELSE 0]
    /\ stopContended = FALSE
    /\ pc = [w \in 1..MaxWorkers |-> IF w \in Workers THEN "exited" ELSE "idle"]
    /\ FreshMetricsAndVerify

NextVerify ==
    \/ LoseRows \/ DataLossCtxExpire
    \/ VerifyStart \/ VerifyChunkCheck \/ VerifyChunkQuery
    \/ VerifyRangeCheck \/ VerifyRangeQuery
    \/ MainReport

SpecVerify == InitVerify /\ [][NextVerify]_vars


(***************************************************************************)
(* SpecTrack: the tracked set under concurrent RecordInsertedID calls      *)
(*                                                                         *)
(* Every worker has received the identifiers of a successful INSERT ...    *)
(* RETURNING id and reads them one by one (rows.Next, rows.Scan,           *)
(* RecordInsertedID), the workers interleaving at every call, while _main  *)
(* goes on to Stop() and GetInsertedIDs.  The table was empty when the run *)
(* began, so it holds the seed rows and the rows of these batches: exactly *)
(* the identifiers the store has returned to the client.                   *)
(***************************************************************************)
\* BATCH_SIZE of the runs of SpecTrack
TrackBatchSizes == {2, 3}

TrackConfigs == {Config(MaxWorkers, b, 0, 70, 30, 5) : b \in TrackBatchSizes}

\* the run was seeded, Start has returned, and every worker holds the reply
\* of its INSERT: consecutive blocks of BatchSize identifiers
InitTrack ==
    /\ cfg \in TrackConfigs
    /\ maxConnections \in StoreCapacities
    /\ nonIdleSessions = maxConnections - cfg.MinFreeConns
    /\ table = RowsOf(SeedCount + cfg.ConcurrentWriters * cfg.BatchSize)
    /\ nextID = SeedCount + cfg.ConcurrentWriters * cfg.BatchSize + 1
    /\ tableTouched = TRUE
    /\ mainPC = "wait"
    /\ exitErr = NoError /\ report = [verdict |-> "pending"]
    /\ cleanupResult = "pending"
    /\ seedI = SeedCount /\ spawnI = cfg.ConcurrentWriters
    /\ ctxDone = FALSE
    /\ stopChan = "open" /\ closeCount = 0 /\ onceDone = FALSE /\ onceLocked = FALSE
    /\ stopPC = [c \in Callers |-> "idle"] /\ stopCalls = [c \in Callers |-> 0]
    /\ stopContended = FALSE
    /\ wg = cfg.ConcurrentWriters
    /\ pc = [w \in 1..MaxWorkers |-> "record_store"]
    /\ recording = [w \in 1..MaxWorkers |->
                       RowsToRead(SeedCount + (w - 1) * cfg.BatchSize + 1,
                                  OkOutcome(cfg.BatchSize))]
    /\ lateOps = [w \in 1..MaxWorkers |-> 0]
    /\ lateChecks = [w \in 1..MaxWorkers |-> 0]
    /\ opsBegun = MaxOps
    /\ engine = "v1"
    /\ benignNoRows = 0 /\ totalReads = 0 /\ totalRows = 0 /\ readLatencies = 0 /\ partials = 0 /\ lossEvents = 0
    /\ IdleAux
    /\ totalInserts = 0 /\ totalUpdates = 0 /\ totalErrors = 0 /\ totalBytes = 0
    /\ insertLatencies = 0 /\ updateLatencies = 0
    /\ insertedIDs = RowsOf(SeedCount) /\ totalInsertedIDs = SeedCount
    /\ dlCtxDone = FALSE /\ vPC = "idle" /\ vCalls = 0 /\ vIDs = <<>> /\ vI = 0
    /\ vFound = 0 /\ vQueries = 0 /\ vLog = <<>> /\ vResult = NoResult

TrackWorker ==
    \E w \in Workers :
        \/ TrackStore(w) \/ TrackCount(w) \/ WorkerInsertFinish(w)
        \/ RecordCall(w)
        \/ WorkerCheck(w)

NextTrack ==
    \/ TrackWorker
    \/ MainWait \/ MainStop \/ MainFinal
    \/ VerifyStart

SpecTrack == InitTrack /\ [][NextTrack]_vars

(***************************************************************************)
(* SpecMetrics: the metrics object under concurrent callers                *)
(*                                                                         *)
(* Worker goroutines call RecordInsert, RecordUpdate, RecordError (and     *)
(* RecordRead in the second engine, whose workers also read) while another *)
(* goroutine calls GetSnapshot again and again.                            *)
(* Every atomic operation and every lock operation is a step of its own.   *)
(***************************************************************************)
\* operations begun, and so Record* calls made, in a run of SpecMetrics
MaxCalls == 2
\* GetSnapshot calls made in a run of SpecMetrics
MaxSnapshots == 2

\* a configuration with READ_BATCH_SIZE = rb
WithReadBatch(c, rb) == [c EXCEPT !.ReadBatchSize = rb]

\* the first engine with every worker count, the second with one or two
\* workers and reads of one row
MetricsRuns ==
    {<<c, "v1">> : c \in RunConfigs}
        \cup {<<WithReadBatch(Config(n, b, 50, 30, 20, 5), 1), "v2">> :
                 n \in {1, 2}, b \in RunBatchSizes}

\* the Record* calls the workers of the run can make: those of the
\* operations the worker's die roll can select, roll < ReadPercent for a
\* read and roll < ReadPercent + InsertPercent for an insert in the second
\* engine, roll < InsertPercent for an insert in the first, else an update
RecordKinds ==
    IF IsV2
    THEN {kind \in {"read", "insert", "update"} :
            \/ kind = "read" /\ 0 < cfg.ReadPercent
            \/ kind = "insert" /\ cfg.ReadPercent < DieSides /\ 0 < cfg.InsertPercent
            \/ kind = "update" /\ cfg.ReadPercent + cfg.InsertPercent < DieSides}
    ELSE {kind \in {"insert", "update"} :
            \/ kind = "insert" /\ 0 < cfg.InsertPercent
            \/ kind = "update" /\ cfg.InsertPercent < DieSides}

\* lengths of the columns a read sums up, for the records generateRecord
\* makes: those with the shortest and those with the longest name, e-mail
\* and address
ShortRow == [name |-> 10, email |-> 14, address |-> 28, data |-> DataBytes]
LongRow == [name |-> 18, email |-> 22, address |-> 36, data |-> DataBytes]
RowShapes == {ShortRow, LongRow}

\* bytesRead += len(data) + len(name) + len(email), and len(address) as
\* well in readByIDRange (read pattern 0)
RowBytes(row, readPattern) ==
    row.data + row.name + row.email + (IF readPattern = 0 THEN row.address ELSE 0)

\* bytesRead after the rows of a sequence have been scanned
RECURSIVE BytesRead(_, _)
BytesRead(rows, readPattern) ==
    IF rows = <<>> THEN 0
    ELSE RowBytes(Head(rows), readPattern) + BytesRead(Tail(rows), readPattern)

\* the sequences of at most n rows a SELECT ... LIMIT n returns
RECURSIVE RowSeqs(_)
RowSeqs(n) ==
    IF n = 0 THEN {<<>>}
    ELSE RowSeqs(n - 1)
            \cup {Append(s, r) : s \in {x \in RowSeqs(n - 1) : Len(x) = n - 1},
                                 r \in RowShapes}

\* the values of bytesRead with which a read function returns without error
ReadSizes(c) ==
    {BytesRead(rows, p) : rows \in RowSeqs(c.ReadBatchSize), p \in 0..3}

CallsMade == calls.reads + calls.inserts + calls.updates + calls.errors

\* the select at the top of the loop finds neither channel ready: the worker
\* goes into its next operation, which ends with a Record* call
RecorderOperate(w) ==
    /\ pc[w] = "check"
    /\ ~WorkerShouldExit(ctxDone, stopChan = "closed")
    /\ opsBegun < MaxCalls
    /\ pc' = [pc EXCEPT ![w] = "operation"]
    /\ opsBegun' = opsBegun + 1
    /\ UNCHANGED <<cfg, v2Vars, auxVars, storeVars, mainVars, ctxDone, stopVars, wg,
                   lateOps, lateChecks, recording, benignNoRows, partials,
                   lossEvents, counterVars, idVars, verifyVars>>

\* RecordRead / RecordInsert / RecordUpdate is called: its first statement,
\* the Add(1) on the operation counter
RecordBegin(w) ==
    /\ pc[w] = "operation"
    /\ \E kind \in RecordKinds :
        \E bytesRead \in (IF kind = "read" THEN ReadSizes(cfg) ELSE {0}) :
          /\ totalReads' = IF kind = "read" THEN AtomicAdd(totalReads, 1) ELSE totalReads
          /\ totalInserts' = IF kind = "insert" THEN AtomicAdd(totalInserts, 1) ELSE totalInserts
          /\ totalUpdates' = IF kind = "update" THEN AtomicAdd(totalUpdates, 1) ELSE totalUpdates
          /\ calls' = [calls EXCEPT
                          !.reads = IF kind = "read" THEN @ + 1 ELSE @,
                          !.inserts = IF kind = "insert" THEN @ + 1 ELSE @,
                          !.updates = IF kind = "update" THEN @ + 1 ELSE @,
                          !.bytes = @ + BytesArg(kind, cfg, bytesRead)]
          /\ reply' = [reply EXCEPT ![w] = IF kind = "read"
                                           THEN RowsReply(0, 0, bytesRead, FALSE)
                                           ELSE @]
          /\ pc' = [pc EXCEPT ![w] = AtBytes(kind)]
    /\ UNCHANGED <<cfg, engine, totalRows, readLatencies, latencyMutex, snapPC, snap, lastSnap, pctVars, initCalls, restVars, storeVars, mainVars, ctxDone,
                   stopVars, wg, lateOps, lateChecks, opsBegun, recording,
                   benignNoRows, partials, lossEvents, totalErrors, totalBytes,
                   insertLatencies, updateLatencies, idVars, verifyVars>>
    /\ seen' = Observed(Counters')

\* the operation failed: RecordError, m.totalErrors.Add(1)
RecordErrorCall(w) ==
    /\ pc[w] = "operation"
    /\ totalErrors' = AtomicAdd(totalErrors, 1)
    /\ calls' = [calls EXCEPT !.errors = @ + 1]
    /\ pc' = [pc EXCEPT ![w] = "check"]
    /\ UNCHANGED <<cfg, v2Vars, latencyMutex, snapPC, snap, lastSnap, pctVars,
                   reply, initCalls, restVars, storeVars, mainVars, ctxDone, stopVars, wg,
                   lateOps, lateChecks, opsBegun, recording, benignNoRows,
                   partials, lossEvents, totalInserts, totalUpdates,
                   totalBytes, insertLatencies, updateLatencies, idVars, verifyVars>>
    /\ seen' = Observed(Counters')

\* the select at the top of the loop finds ctx.Done() or lg.stopChan ready:
\* the worker returns
RecorderExit(w) ==
    /\ pc[w] = "check"
    /\ WorkerShouldExit(ctxDone, stopChan = "closed")
    /\ pc' = [pc EXCEPT ![w] = "exited"]
    /\ wg' = wg - 1
    /\ UNCHANGED <<cfg, v2Vars, auxVars, storeVars, mainVars, ctxDone, stopVars, lateOps,
                   lateChecks, opsBegun, recording, benignNoRows, partials,
                   lossEvents, counterVars, idVars, verifyVars>>

\* the counters GetSnapshot loads, in the order of the struct literal
SnapFields ==
    IF IsV2
    THEN <<"TotalReads", "TotalInserts", "TotalUpdates", "TotalErrors", "TotalBytes">>
    ELSE <<"TotalInserts", "TotalUpdates", "TotalErrors", "TotalBytes">>

\* a load that would report the operations since the last snapshot
CounterOf_sinceLast(field) ==
    (IF field = "TotalReads" THEN totalReads
     ELSE IF field = "TotalInserts" THEN totalInserts
     ELSE IF field = "TotalUpdates" THEN totalUpdates
     ELSE IF field = "TotalErrors" THEN totalErrors
     ELSE totalBytes) - lastSnap[field]

\* a load that would take the baseline of the rate calculation
CounterOf_baseline(field) == lastSnap[field]

\* m.total<field>.Load()
CounterOf(field) ==
    IF field = "TotalReads" THEN totalReads
    ELSE IF field = "TotalInserts" THEN totalInserts
    ELSE IF field = "TotalUpdates" THEN totalUpdates
    ELSE IF field = "TotalErrors" THEN totalErrors
    ELSE totalBytes

\* GetSnapshot is called
SnapBegin ==
    /\ snapPC = "idle"
    /\ calls.snapshots < MaxSnapshots
    /\ calls' = [calls EXCEPT !.snapshots = @ + 1]
    /\ snap' = NoSnapshot
    /\ snapPC' = SnapFields[1]
    /\ seen' = IF seen.kept THEN [seen EXCEPT !.held = {Counters}] ELSE seen
    /\ UNCHANGED <<cfg, v2Vars, latencyMutex, lastSnap, pctVars, reply,
                   initCalls, restVars, storeVars, mainVars, ctxDone, stopVars, wg, workerVars,
                   partials, lossEvents, counterVars, idVars, verifyVars>>

\* one m.total*.Load(); after the last one TotalOperations is summed up
SnapLoad ==
    /\ \E k \in 1..Len(SnapFields) :
          /\ snapPC = SnapFields[k]
          /\ LET loaded == [snap EXCEPT ![snapPC] = CounterOf(snapPC)]
             IN IF k < Len(SnapFields)
                THEN snap' = loaded /\ snapPC' = SnapFields[k + 1]
                ELSE /\ snap' = [loaded EXCEPT !.TotalOperations =
                                    loaded.TotalReads + loaded.TotalInserts
                                        + loaded.TotalUpdates]
                     /\ snapPC' = "rlock"
    /\ UNCHANGED <<cfg, v2Vars, latencyMutex, lastSnap, calls, pctVars, reply,
                   initCalls, extVars, storeVars, mainVars, ctxDone, stopVars, wg, workerVars,
                   partials, lossEvents, counterVars, idVars, verifyVars>>

\* m.latencyMutex.RLock()
SnapRLock ==
    /\ snapPC = "rlock"
    /\ MayRLock(latencyMutex)
    /\ latencyMutex' = [latencyMutex EXCEPT !.readers = @ + 1]
    /\ snapPC' = "percentiles"
    /\ UNCHANGED <<cfg, v2Vars, snap, lastSnap, calls, pctVars, reply,
                   initCalls, extVars, storeVars, mainVars, ctxDone, stopVars, wg, workerVars,
                   partials, lossEvents, counterVars, idVars, verifyVars>>

\* the averages and percentiles of the buffers, m.latencyMutex.RUnlock()
SnapRUnlock ==
    /\ snapPC = "percentiles"
    /\ latencyMutex' = [latencyMutex EXCEPT !.readers = @ - 1]
    /\ snapPC' = "write_last"
    /\ UNCHANGED <<cfg, v2Vars, snap, lastSnap, calls, pctVars, reply, initCalls, extVars,
                   storeVars, mainVars, ctxDone, stopVars, wg, workerVars, partials,
                   lossEvents, counterVars, idVars, verifyVars>>

\* m.lastInsertCount = snapshot.TotalInserts and the other m.last* fields
\* are written, outside the lock; return snapshot
SnapReturn ==
    /\ snapPC = "write_last"
    /\ lastSnap' = snap
    /\ snapPC' = "idle"
    /\ UNCHANGED <<cfg, v2Vars, latencyMutex, snap, calls, pctVars, reply, initCalls,
                   extVars, storeVars, mainVars, ctxDone, stopVars, wg, workerVars,
                   partials, lossEvents, counterVars, idVars, verifyVars>>

\* a fresh metrics object and the workers of a started engine
InitMetrics ==
    /\ \E run \in MetricsRuns : cfg = run[1] /\ engine = run[2]
    /\ maxConnections \in StoreCapacities
    /\ nonIdleSessions = maxConnections - cfg.MinFreeConns
    /\ \E n \in PreexistingRows \ {0} : table = RowsOf(n) /\ nextID = n + 1
    /\ tableTouched = TRUE
    /\ mainPC = "wait"
    /\ partials = 0
    /\ seedI = 0 /\ spawnI = cfg.ConcurrentWriters
    /\ stopChan = "open" /\ closeCount = 0 /\ onceDone = FALSE /\ onceLocked = FALSE
    /\ wg = cfg.ConcurrentWriters
    /\ stopPC = [c \in Callers |-> "idle"] /\ stopCalls = [c \in Callers |-> 0]
    /\ stopContended = FALSE
    /\ pc = [w \in 1..MaxWorkers |-> IF w <= cfg.ConcurrentWriters THEN "check" ELSE "idle"]
    /\ opsBegun = 0
    /\ totalInserts = 0 /\ totalErrors = 0 /\ totalBytes = 0
    /\ insertLatencies = 0
    /\ insertedIDs = {} /\ totalInsertedIDs = 0
    /\ FreshCounters /\ IdleAux

Recorder ==
    \E w \in Workers :
        \/ RecorderOperate(w)
        \/ RecordBegin(w) \/ RecordCall(w)
        \/ RecordErrorCall(w)
        \/ RecorderExit(w)

GetSnapshot == SnapBegin \/ SnapLoad \/ SnapRLock \/ SnapRUnlock \/ SnapReturn

NextMetrics == Recorder \/ GetSnapshot \/ CtxExpire

SpecMetrics == InitMetrics /\ [][NextMetrics]_vars

(***************************************************************************)
(* SpecCut: SpecMetrics with the history of every GetSnapshot call         *)
(***************************************************************************)
\* a run of the first engine and one of the second
CutRuns ==
    {<<Config(2, 2, 0, 70, 30, 5), "v1">>,
     <<WithReadBatch(Config(1, 2, 50, 30, 20, 5), 1), "v2">>}

InitCut ==
    /\ \E run \in CutRuns : cfg = run[1] /\ engine = run[2]
    /\ maxConnections \in StoreCapacities
    /\ nonIdleSessions = maxConnections - cfg.MinFreeConns
    /\ \E n \in PreexistingRows \ {0} : table = RowsOf(n) /\ nextID = n + 1
    /\ tableTouched = TRUE
    /\ mainPC = "wait"
    /\ partials = 0
    /\ seedI = 0 /\ spawnI = cfg.ConcurrentWriters
    /\ stopChan = "open" /\ closeCount = 0 /\ onceDone = FALSE /\ onceLocked = FALSE
    /\ wg = cfg.ConcurrentWriters
    /\ stopPC = [c \in Callers |-> "idle"] /\ stopCalls = [c \in Callers |-> 0]
    /\ stopContended = FALSE
    /\ pc = [w \in 1..MaxWorkers |-> IF w <= cfg.ConcurrentWriters THEN "check" ELSE "idle"]
    /\ opsBegun = 0
    /\ totalInserts = 0 /\ totalErrors = 0 /\ totalBytes = 0
    /\ insertLatencies = 0
    /\ insertedIDs = {} /\ totalInsertedIDs = 0
    /\ FreshCounters
    /\ IdleMetrics /\ IdlePercentile /\ IdleReply /\ IdleInitialize
    /\ seen = [kept |-> TRUE, held |-> {}]
    /\ samples = NoSamples /\ recorded = NoSamples
    /\ reporter = NoReporter /\ restart = NoRestart
    /\ rng = [w \in 1..MaxWorkers |-> 0] /\ globalRand = 0
    /\ monitor = NoMonitor /\ connMetrics = NoConnMetrics

NextCut == Recorder \/ GetSnapshot \/ CtxExpire

SpecCut == InitCut /\ [][NextCut]_vars

(***************************************************************************)
(* SpecLock: the workers' operations and the latency mutex                 *)
(*                                                                         *)
(* The workers of the first engine with every statement in flight as a     *)
(* position of its own, and the Record* call that follows a successful     *)
(* operation taken in its steps (the two atomic adds, Lock, the append and *)
(* Unlock), while another goroutine takes snapshots under RLock.           *)
(***************************************************************************)
\* the workers of a started engine of the first kind, nothing recorded yet
InitLock ==
    /\ cfg \in RunConfigs
    /\ maxConnections \in StoreCapacities
    /\ nonIdleSessions = maxConnections - cfg.MinFreeConns
    /\ \E n \in PreexistingRows \ {0} : table = RowsOf(n) /\ nextID = n + 1
    /\ tableTouched = TRUE
    /\ mainPC = "wait"
    /\ partials = 0
    /\ seedI = 0 /\ spawnI = cfg.ConcurrentWriters
    /\ stopChan = "open" /\ closeCount = 0 /\ onceDone = FALSE /\ onceLocked = FALSE
    /\ wg = cfg.ConcurrentWriters
    /\ stopPC = [c \in Callers |-> "idle"] /\ stopCalls = [c \in Callers |-> 0]
    /\ stopContended = FALSE
    /\ pc = [w \in 1..MaxWorkers |-> IF w <= cfg.ConcurrentWriters THEN "check" ELSE "idle"]
    /\ opsBegun = 0
    /\ totalInserts = 0 /\ totalErrors = 0 /\ totalBytes = 0
    /\ insertLatencies = 0
    /\ insertedIDs = {} /\ totalInsertedIDs = 0
    /\ FreshMetricsAndVerify

NextLock == Worker \/ GetSnapshot

SpecLock == InitLock /\ [][NextLock]_vars

(***************************************************************************)
(* SpecSynth: the random generators behind the die roll and the records    *)
(*                                                                         *)
(* rng[w] is the number of values drawn from the generator worker w made   *)
(* with rand.New at its start, globalRand the number drawn from the        *)
(* default source of math/rand, which the package-level rand.Intn uses and *)
(* which every goroutine of the process shares.                            *)
(***************************************************************************)
\* generateRandomData(1024): the length of the data field of a record
RecordDataSize == 1024

\* rand.Intn calls of one generateRecord(): name 2, e-mail 2, age 1,
\* address 4, phone 3 and one per byte of generateRandomData(1024)
DrawsPerRecord == 2 + 2 + 1 + 4 + 3 + RecordDataSize

\* n draws from the default source
GlobalDraws(n) == globalRand + n

\* the select at the top of the loop, then roll := rng.Intn(100)
SynthRoll(w) ==
    /\ pc[w] = "check"
    /\ IF WorkerShouldExit(ctxDone, stopChan = "closed")
       THEN /\ pc' = [pc EXCEPT ![w] = "exited"]
            /\ wg' = wg - 1
            /\ UNCHANGED <<opsBegun, lateChecks, rng>>
       ELSE /\ opsBegun < MaxOps
            /\ rng' = [rng EXCEPT ![w] = @ + 1]
            /\ \E roll \in Rolls : pc' = [pc EXCEPT ![w] = PickOperation(roll, cfg)]
            /\ opsBegun' = opsBegun + 1
            /\ lateChecks' = [lateChecks EXCEPT ![w] = IF StopRequested THEN @ + 1 ELSE @]
            /\ wg' = wg
    /\ UNCHANGED <<cfg, v2Vars, metricsVars, pctVars, reply, initCalls, seen, samples,
                   recorded, reporter, restart, globalRand, monitor, connMetrics,
                   storeVars, mainVars, ctxDone, stopVars, lateOps, recording,
                   benignNoRows, partials, lossEvents, counterVars, idVars,
                   verifyVars>>

\* performInsert up to QueryContext: BatchSize calls of lg.generateRecord(),
\* then the statement is sent unless the context is already done
SynthInsertBegin(w) ==
    /\ pc[w] = "insert"
    /\ globalRand' = GlobalDraws(cfg.BatchSize * DrawsPerRecord)
    /\ IF ctxDone
       THEN /\ RecordError
            /\ pc' = [pc EXCEPT ![w] = AfterOperation(TRUE)]
            /\ lateOps' = lateOps
       ELSE /\ pc' = [pc EXCEPT ![w] = "insert_flight"]
            /\ lateOps' = Late(w)
            /\ totalErrors' = totalErrors
    /\ UNCHANGED <<cfg, v2Vars, metricsVars, pctVars, reply, initCalls, seen, samples,
                   recorded, reporter, restart, rng, monitor, connMetrics,
                   storeVars, mainVars, ctxDone, stopVars, wg, lateChecks,
                   opsBegun, recording, benignNoRows, partials, lossEvents,
                   totalInserts, totalUpdates, totalBytes, insertLatencies,
                   updateLatencies, idVars, verifyVars>>

\* the SELECT of performUpdate returns: with an identifier the worker calls
\* lg.generateRecord() once and sends the UPDATE
SynthUpdateSelected(w) ==
    /\ pc[w] = "update_select_flight"
    /\ \E out \in SelectOutcomes(table) :
        \/ /\ out = "no_rows"
           /\ benignNoRows' = benignNoRows + 1
           /\ pc' = [pc EXCEPT ![w] = AfterOperation(FALSE)]
           /\ UNCHANGED <<totalErrors, lateOps, globalRand>>
        \/ /\ out = "failed"
           /\ RecordError
           /\ pc' = [pc EXCEPT ![w] = AfterOperation(TRUE)]
           /\ UNCHANGED <<benignNoRows, lateOps, globalRand>>
        \/ /\ out = "id"
           /\ benignNoRows' = benignNoRows
           /\ globalRand' = GlobalDraws(DrawsPerRecord)
           /\ IF ctxDone
              THEN /\ RecordError
                   /\ pc' = [pc EXCEPT ![w] = AfterOperation(TRUE)]
                   /\ lateOps' = lateOps
              ELSE /\ pc' = [pc EXCEPT ![w] = "update_exec_flight"]
                   /\ lateOps' = Late(w)
                   /\ totalErrors' = totalErrors
    /\ tableTouched' = TRUE
    /\ UNCHANGED <<cfg, v2Vars, metricsVars, pctVars, reply, initCalls, seen, samples,
                   recorded, reporter, restart, rng, monitor, connMetrics,
                   maxConnections, nonIdleSessions, table, nextID, mainVars,
                   ctxDone, stopVars, wg, lateChecks, opsBegun, recording,
                   partials, lossEvents, totalInserts, totalUpdates, totalBytes,
                   insertLatencies, updateLatencies, idVars, verifyVars>>

SynthWorker ==
    \E w \in Workers :
        \/ SynthRoll(w)
        \/ SynthInsertBegin(w) \/ WorkerInsertReply(w)
        \/ TrackStore(w) \/ TrackCount(w)
        \/ WorkerInsertFinish(w)
        \/ WorkerUpdateBegin(w) \/ SynthUpdateSelected(w) \/ WorkerUpdateFinish(w)
        \/ RecordCall(w)

NextSynth == SynthWorker \/ CtxExpire

SpecSynth == InitLock /\ [][NextSynth]_vars

(***************************************************************************)
(* SpecMonitor: cm.MonitorConnections and its callback                     *)
(*                                                                         *)
(* The goroutine _main starts before the workers: on every tick it runs    *)
(* the two queries of GetConnectionStats and hands the result to the       *)
(* callback, which stores it in the three connection fields of the         *)
(* metrics.  Other clients of the store open and close sessions meanwhile. *)
(***************************************************************************)
\* ticks taken by the monitoring goroutine in the runs explored
MaxPolls == 3

\* everything the monitoring goroutine and the store's other clients leave alone
monitorFrame ==
    <<cfg, v2Vars, metricsVars, pctVars, reply, initCalls, seen, samples, recorded,
      reporter, restart, rng, globalRand, maxConnections, table, nextID,
      tableTouched, mainVars, stopVars, wg, workerVars, partials, lossEvents,
      counterVars, idVars, verifyVars>>

\* monitorCtx is done: cancelled by monitorCancel, or with its parent
MonitorCtxDone == ctxDone \/ monitor.cancelled

\* what a QueryRowContext(ctx, ...).Scan gives; a done context fails it
QueryOutcomes == IF MonitorCtxDone THEN {"failed"} ELSE {"ok", "failed"}

\* a poller that gives up at the first error
AfterFailedPoll_fatal == "returned"

\* Printf("Error getting connection stats"), continue: back to the select
AfterFailedPoll == "select"

\* GetConnectionStats returned an error
FailedPoll == [monitor EXCEPT !.pc = AfterFailedPoll, !.failures = @ + 1]

\* a session of another client of the store opens or closes
SessionsChange ==
    /\ \E n \in StoreSessions : n # nonIdleSessions /\ nonIdleSessions' = n
    /\ UNCHANGED <<monitorFrame, monitor, connMetrics, ctxDone>>

\* the deferred monitorCancel()
MonitorCancel ==
    /\ monitor.pc # "idle" /\ ~monitor.cancelled
    /\ monitor' = [monitor EXCEPT !.cancelled = TRUE]
    /\ UNCHANGED <<monitorFrame, nonIdleSessions, connMetrics, ctxDone>>

\* case <-ticker.C
MonitorTick ==
    /\ monitor.pc = "select"
    /\ monitor.polls < MaxPolls
    /\ monitor' = [monitor EXCEPT !.pc = "show_max", !.polls = @ + 1]
    /\ UNCHANGED <<monitorFrame, nonIdleSessions, connMetrics, ctxDone>>

\* case <-ctx.Done(): return
MonitorExit ==
    /\ monitor.pc = "select"
    /\ MonitorCtxDone
    /\ monitor' = [monitor EXCEPT !.pc = "returned"]
    /\ UNCHANGED <<monitorFrame, nonIdleSessions, connMetrics, ctxDone>>

\* GetConnectionStats: SHOW max_connections
MonitorShowMax ==
    /\ monitor.pc = "show_max"
    /\ \E out \in QueryOutcomes :
        monitor' = IF out = "failed"
                   THEN FailedPoll
                   ELSE [monitor EXCEPT !.pc = "count", !.max = maxConnections]
    /\ UNCHANGED <<monitorFrame, nonIdleSessions, connMetrics, ctxDone>>

\* GetConnectionStats: the count of pg_stat_activity, then callback(stats),
\* which is m.UpdateConnectionMetrics(current, max, available)
MonitorCount ==
    /\ monitor.pc = "count"
    /\ \E out \in QueryOutcomes :
        IF out = "failed"
        THEN monitor' = FailedPoll /\ connMetrics' = connMetrics
        ELSE LET stats == GetConnectionStats(monitor.max, nonIdleSessions, cfg.MinFreeConns)
             IN /\ monitor' = [monitor EXCEPT !.pc = "select", !.callbacks = @ + 1]
                /\ connMetrics' = [activeConns |-> stats.CurrentConnections,
                                   maxConns |-> stats.MaxConnections,
                                   availableConns |-> stats.AvailableConnections]
    /\ UNCHANGED <<monitorFrame, nonIdleSessions, ctxDone>>

\* _main after lg.Initialize: the monitoring goroutine is started
InitMonitor ==
    /\ cfg \in RunConfigs
    /\ maxConnections \in StoreCapacities
    /\ nonIdleSessions = maxConnections - cfg.MinFreeConns
    /\ \E n \in PreexistingRows \ {0} : table = RowsOf(n) /\ nextID = n + 1
    /\ tableTouched = TRUE
    /\ mainPC = "start"
    /\ partials = 0
    /\ FreshEngine
    /\ FreshCountersAndVerify
    /\ IdleMetrics /\ IdlePercentile /\ IdleReply /\ IdleInitialize
    /\ seen = NoHistory /\ samples = NoSamples /\ recorded = NoSamples
    /\ reporter = NoReporter /\ restart = NoRestart
    /\ rng = [w \in 1..MaxWorkers |-> 0] /\ globalRand = 0
    /\ monitor = [NoMonitor EXCEPT !.pc = "select"]
    /\ connMetrics = NoConnMetrics

MonitorConnections == MonitorTick \/ MonitorShowMax \/ MonitorCount \/ MonitorExit

NextMonitor == MonitorConnections \/ MonitorCancel \/ SessionsChange \/ CtxExpire

SpecMonitor == InitMonitor /\ [][NextMonitor]_vars

(***************************************************************************)
(* SpecLatency: the content of the latency buffers                         *)
(*                                                                         *)
(* The Record* calls of SpecMetrics, with the samples themselves.  One     *)
(* buffer has been filled by earlier calls up to (or just below) its       *)
(* capacity, so that the next calls reach the trim.                        *)
(***************************************************************************)
\* the latencies passed to the Record* calls
LatencyArgs == {1, 2}

\* how many samples the buffer held when the run of SpecLatency begins
LatencyFills == {0, LatencyCap - 1, LatencyCap}

\* runs of the first engine and of the second, each with a workload
\* without reads and with one of 50 % reads (READ_PERCENT is read from the
\* environment for both; the first engine does not look at it)
LatencyRuns ==
    {<<WithReadBatch(Config(n, 2, r, 70 - r, 30, 5), 1), e>> :
        n \in {1, 2}, r \in {0, 50}, e \in {"v1", "v2"}}

\* the latencies of k earlier calls
EarlierSamples(k) == [i \in 1..k |-> 1 + (i % 3)]

\* a trim that keeps the first 10000 samples
TrimSamples_oldest(buffer) ==
    IF Len(buffer) > LatencyCap THEN SubSeq(buffer, 1, LatencyCap) ELSE buffer

\* if len(latencies) > 10000 { latencies = latencies[len(latencies)-10000:] }
TrimSamples(buffer) ==
    IF Len(buffer) > LatencyCap
    THEN SubSeq(buffer, Len(buffer) - LatencyCap + 1, Len(buffer))
    ELSE buffer

\* the append of RecordAppend with the latency itself, the trim, Unlock()
RecordAppendSample(w) ==
    /\ KindOf(pc[w]) # "none" /\ pc[w] = AtAppend(KindOf(pc[w]))
    /\ \E latency \in LatencyArgs :
          /\ samples' = [samples EXCEPT
                            ![KindOf(pc[w])] = TrimSamples(Append(@, latency))]
          /\ recorded' = [recorded EXCEPT ![KindOf(pc[w])] = Append(@, latency)]
    /\ readLatencies' = Len(samples'.read)
    /\ insertLatencies' = Len(samples'.insert)
    /\ updateLatencies' = Len(samples'.update)
    /\ latencyMutex' = Unlock(latencyMutex)
    /\ pc' = [pc EXCEPT ![w] = "check"]
    /\ UNCHANGED <<cfg, engine, totalReads, totalRows, snapPC, snap, lastSnap, calls,
                   pctVars, reply, initCalls, seen, reporter, restart, rng,
                   globalRand, monitor, connMetrics, storeVars, mainVars, ctxDone,
                   stopVars, wg, lateOps, lateChecks, opsBegun, recording,
                   benignNoRows, partials, lossEvents, totalInserts, totalUpdates,
                   totalErrors, totalBytes, idVars, verifyVars>>

\* the workers of a started engine; one kind has been recorded k times, a
\* read each time with one row of the shortest values
InitLatency ==
    /\ \E run \in LatencyRuns : cfg = run[1] /\ engine = run[2]
    /\ maxConnections \in StoreCapacities
    /\ nonIdleSessions = maxConnections - cfg.MinFreeConns
    /\ table = RowsOf(1) /\ nextID = 2
    /\ tableTouched = TRUE
    /\ mainPC = "wait"
    /\ partials = 0
    /\ seedI = 0 /\ spawnI = cfg.ConcurrentWriters
    /\ stopChan = "open" /\ closeCount = 0 /\ onceDone = FALSE /\ onceLocked = FALSE
    /\ wg = cfg.ConcurrentWriters
    /\ stopPC = [c \in Callers |-> "idle"] /\ stopCalls = [c \in Callers |-> 0]
    /\ stopContended = FALSE
    /\ pc = [w \in 1..MaxWorkers |-> IF w <= cfg.ConcurrentWriters THEN "check" ELSE "idle"]
    /\ opsBegun = 0
    /\ totalErrors = 0
    /\ insertedIDs = {} /\ totalInsertedIDs = 0
    /\ dlCtxDone = FALSE /\ vPC = "idle" /\ vCalls = 0 /\ vIDs = <<>> /\ vI = 0
    /\ vFound = 0 /\ vQueries = 0 /\ vLog = <<>> /\ vResult = NoResult
    /\ report = [verdict |-> "pending"] /\ cleanupResult = "pending"
    /\ lossEvents = 0 /\ ctxDone = FALSE /\ exitErr = NoError
    /\ lateOps = [w \in 1..MaxWorkers |-> 0]
    /\ lateChecks = [w \in 1..MaxWorkers |-> 0]
    /\ recording = [w \in 1..MaxWorkers |-> NoRows]
    /\ benignNoRows = 0 /\ totalRows = 0
    /\ IdleMetrics /\ IdlePercentile /\ IdleReply /\ IdleInitialize
    /\ seen = NoHistory /\ reporter = NoReporter /\ restart = NoRestart
    /\ rng = [w \in 1..MaxWorkers |-> 0] /\ globalRand = 0
    /\ monitor = NoMonitor /\ connMetrics = NoConnMetrics
    /\ \E kind \in RecordKinds, k \in LatencyFills :
          /\ recorded = [NoSamples EXCEPT ![kind] = EarlierSamples(k)]
          /\ samples = recorded
          /\ totalReads = Len(recorded.read)
          /\ totalInserts = Len(recorded.insert)
          /\ totalUpdates = Len(recorded.update)
          /\ readLatencies = Len(samples.read)
          /\ insertLatencies = Len(samples.insert)
          /\ updateLatencies = Len(samples.update)
          /\ totalBytes = k * BytesArg(kind, cfg, RowBytes(ShortRow, 1))

LatencyRecorder ==
    \E w \in Workers :
        \/ RecorderOperate(w)
        \/ RecordBegin(w) \/ RecordAddBytes(w) \/ RecordLock(w)
        \/ RecordAppendSample(w) \/ RecorderExit(w)

NextLatency == LatencyRecorder \/ CtxExpire

SpecLatency == InitLatency /\ [][NextLatency]_vars

(***************************************************************************)
(* SpecReport: the two callers of GetSnapshot in _main                     *)
(*                                                                         *)
(* The goroutine _main starts before lg.Start calls m.GetSnapshot() at     *)
(* every tick of its ticker until the run context is done; _main calls     *)
(* m.GetSnapshot() itself once lg.Stop() has returned.  A call is in       *)
(* progress from its first statement to its return.                        *)
(***************************************************************************)
\* case <-ticker.C: snapshot := m.GetSnapshot() is entered.  When the
\* context is done as well, select takes either ready case.
ReporterTick ==
    /\ reporter.pc = "select"
    /\ reporter.snapshots < MaxSnapshots
    /\ reporter' = [pc |-> "snapshot", snapshots |-> reporter.snapshots + 1]
    /\ UNCHANGED <<cfg, v2Vars, metricsVars, pctVars, reply, initCalls, seen,
                   samples, recorded, restart, rng, globalRand, monitor,
                   connMetrics, storeVars, mainVars, ctxDone, stopVars, wg,
                   workerVars, partials, lossEvents, counterVars, idVars,
                   verifyVars>>

\* GetSnapshot returns to the goroutine, snapshot.Print()
ReporterReturn ==
    /\ reporter.pc = "snapshot"
    /\ reporter' = [reporter EXCEPT !.pc = "select"]
    /\ UNCHANGED <<cfg, v2Vars, metricsVars, pctVars, reply, initCalls, seen,
                   samples, recorded, restart, rng, globalRand, monitor,
                   connMetrics, storeVars, mainVars, ctxDone, stopVars, wg,
                   workerVars, partials, lossEvents, counterVars, idVars,
                   verifyVars>>

\* case <-ctx.Done(): return
ReporterExit ==
    /\ reporter.pc = "select"
    /\ ctxDone
    /\ reporter' = [reporter EXCEPT !.pc = "exited"]
    /\ UNCHANGED <<cfg, v2Vars, metricsVars, pctVars, reply, initCalls, seen,
                   samples, recorded, restart, rng, globalRand, monitor,
                   connMetrics, storeVars, mainVars, ctxDone, stopVars, wg,
                   workerVars, partials, lossEvents, counterVars, idVars,
                   verifyVars>>

\* lg.Stop() has returned: finalSnapshot := m.GetSnapshot() is entered
MainFinalBegin ==
    /\ mainPC = "final"
    /\ mainPC' = "final_snapshot"
    /\ UNCHANGED <<cfg, v2Vars, auxVars, storeVars, exitErr, seedI, spawnI, report,
                   cleanupResult, ctxDone, stopVars, wg, workerVars, partials,
                   lossEvents, counterVars, idVars, verifyVars>>

\* GetSnapshot returns to _main, finalSnapshot.Print()
MainFinalReturn ==
    /\ mainPC = "final_snapshot"
    /\ mainPC' = "verify"
    /\ UNCHANGED <<cfg, v2Vars, auxVars, storeVars, exitErr, seedI, spawnI, report,
                   cleanupResult, ctxDone, stopVars, wg, workerVars, partials,
                   lossEvents, counterVars, idVars, verifyVars>>

\* Initialize has returned and the reporting goroutine has been started
InitReport ==
    /\ cfg \in RunConfigs
    /\ maxConnections \in StoreCapacities
    /\ nonIdleSessions = maxConnections - cfg.MinFreeConns
    /\ \E n \in PreexistingRows \ {0} : table = RowsOf(n) /\ nextID = n + 1
    /\ tableTouched = TRUE
    /\ mainPC = "start"
    /\ partials = MaxPartial
    /\ FreshEngine
    /\ FreshCountersAndVerify
    /\ IdleMetrics /\ IdlePercentile /\ IdleReply /\ IdleInitialize
    /\ seen = NoHistory /\ samples = NoSamples /\ recorded = NoSamples
    /\ reporter = [pc |-> "select", snapshots |-> 0]
    /\ restart = NoRestart
    /\ rng = [w \in 1..MaxWorkers |-> 0] /\ globalRand = 0
    /\ monitor = NoMonitor /\ connMetrics = NoConnMetrics

Reporter == ReporterTick \/ ReporterReturn \/ ReporterExit

NextReport ==
    \/ MainStart \/ MainWait \/ MainStop
    \/ Worker
    \/ CtxExpire
    \/ Reporter
    \/ MainFinalBegin \/ MainFinalReturn

SpecReport == InitReport /\ [][NextReport]_vars

(***************************************************************************)
(* SpecPercentile: calculatePercentile                                     *)
(*                                                                         *)
(* The function is applied to a latency buffer, for the 95 and 99 that     *)
(* GetSnapshot asks for, for 50 and for one more percentile argument.  The *)
(* buffers are all short ones over a few durations and some long ones,     *)
(* long enough for the indices of the percentiles 95 and 99 and the last   *)
(* index to differ.                                                        *)
(***************************************************************************)
\* length of the short buffers
MaxLen == 3
\* largest duration in the short buffers
MaxValue == 3

PercentileArgs == 0..100

\* the percentile arguments tried on the long buffers besides 50, 95 and 99
LongBufferArgs == {0, 33, 100}

\* the percentiles GetSnapshot computes of every buffer that is not empty
SnapshotPercentiles == {95, 99}

\* those and the median, which GetSnapshot does not compute
OrderedPercentiles == SnapshotPercentiles \cup {50}

LongLens == {34, 101}

\* strides and moduli of the long buffers: i * stride % modulus at position i
LongPatterns == {<<7, 103>>, <<3, 10>>}

RECURSIVE ShortBuffers(_)
ShortBuffers(n) ==
    IF n = 0 THEN {<<>>}
    ELSE ShortBuffers(n - 1)
            \cup {Append(b, v) : b \in {x \in ShortBuffers(n - 1) : Len(x) = n - 1},
                                 v \in 0..MaxValue}

LongBuffers ==
    {[i \in 1..n |-> (i * q[1]) % q[2]] : n \in LongLens, q \in LongPatterns}

Buffers == ShortBuffers(MaxLen) \cup LongBuffers

\* sorted[i], sorted[j] = sorted[j], sorted[i]
Swap(sorted, i, j) == [sorted EXCEPT ![i] = sorted[j], ![j] = sorted[i]]

\* for j := i + 1; j < len(sorted); j++ { if sorted[i] > sorted[j] { swap } }
RECURSIVE InnerLoop(_, _, _)
InnerLoop(sorted, i, j) ==
    IF j > Len(sorted) THEN sorted
    ELSE InnerLoop(IF sorted[i] > sorted[j] THEN Swap(sorted, i, j) ELSE sorted,
                   i, j + 1)

\* for i := 0; i < len(sorted); i++ { ... }
RECURSIVE OuterLoop(_, _)
OuterLoop(sorted, i) ==
    IF i > Len(sorted) THEN sorted
    ELSE OuterLoop(InnerLoop(sorted, i, i + 1), i + 1)

\* an index counted from the largest element down
PercentileIndex_fromTop(n, p) == n - 1 - Min((n * p) \div 100, n - 1)

\* int(float64(len(sorted)) * float64(percentile) / 100.0), at most len - 1
PercentileIndex(n, p) ==
    LET index == (n * p) \div 100
    IN IF index >= n THEN n - 1 ELSE index

\* a percentile taken from the buffer as it is
SortedCopy_unsorted(buffer) == buffer

\* the sorted copy of the buffer
SortedCopy(buffer) == OuterLoop(buffer, 1)

calculatePercentile(buffer, p) ==
    IF Len(buffer) = 0 THEN 0
    ELSE SortedCopy(buffer)[PercentileIndex(Len(buffer), p) + 1]

\* calculatePercentile(durations, p) is called and returns
CallPercentile(p) ==
    /\ p \notin DOMAIN result
    /\ result' = [q \in DOMAIN result \cup {p} |->
                     IF q = p THEN calculatePercentile(durations, p) ELSE result[q]]
    /\ UNCHANGED <<cfg, v2Vars, metricsVars, durations, percentile, reply,
                   initCalls, extVars, storeVars, mainVars, ctxDone, stopVars, wg, workerVars,
                   partials, lossEvents, counterVars, idVars, verifyVars>>

InitPercentile ==
    /\ cfg \in {Config(1, b, 0, 70, 30, 5) : b \in RunBatchSizes}
    /\ maxConnections \in StoreCapacities
    /\ nonIdleSessions = maxConnections - cfg.MinFreeConns
    /\ table = RowsOf(1) /\ nextID = 2
    /\ tableTouched = FALSE
    /\ mainPC = "wait"
    /\ partials = MaxPartial
    /\ FreshEngine
    /\ FreshCountersAndVerify
    /\ IdleMetrics /\ IdleReply /\ IdleInitialize /\ IdleExt
    /\ durations \in Buffers
    /\ percentile \in (IF Len(durations) > MaxLen THEN LongBufferArgs
                        ELSE PercentileArgs)
    /\ result = [q \in {} |-> 0]

NextPercentile == \E p \in OrderedPercentiles \cup {percentile} : CallPercentile(p)

SpecPercentile == InitPercentile /\ [][NextPercentile]_vars

(***************************************************************************)
(* SpecFlight: a statement in flight when the stop request arrives         *)
(*                                                                         *)
(* The workers of a started engine insert.  The store decides its reply to *)
(* a statement in a step of its own, and the reply is delivered to         *)
(* batchInsert in a later step; Stop() and the deadline of the run context *)
(* can fall before, between and after the two.  The statement was sent     *)
(* with QueryContext(ctx, ...): database/sql can cancel it once ctx is     *)
(* done.                                                                   *)
(***************************************************************************)
FlightConfigs == {Config(n, b, 0, 100, 0, 5) : n \in 1..MaxWorkers, b \in RunBatchSizes}

\* what the store answers to the INSERT ... RETURNING id
StoreReplies(n) == {OkOutcome(n), RejectOutcome}

\* what batchInsert can get when the statement is cancelled: an error, the
\* statement committed or not, none or a part of the identifiers read
Interrupted(o, n) ==
    IF o.err THEN {o}
    ELSE {[recorded |-> k, committed |-> c, err |-> TRUE] :
             k \in {0, n \div 2}, c \in BOOLEAN}

\* a statement that the stop channel would cancel as well
Delivered_stopCancels(o, n, done) ==
    IF done \/ stopChan = "closed" THEN {o} \cup Interrupted(o, n) ELSE {o}

\* what QueryContext, rows.Next, rows.Scan and rows.Err deliver of reply o:
\* with a context that is done the reply itself or the cancellation
Delivered(o, n, done) ==
    IF done THEN {o} \cup Interrupted(o, n) ELSE {o}

\* performInsert up to QueryContext sending the statement
FlightSend(w) ==
    /\ pc[w] = "insert"
    /\ IF ctxDone
       THEN /\ RecordError
            /\ pc' = [pc EXCEPT ![w] = AfterOperation(TRUE)]
            /\ UNCHANGED <<lateOps, reply>>
       ELSE /\ pc' = [pc EXCEPT ![w] = "insert_flight"]
            /\ lateOps' = Late(w)
            /\ reply' = [reply EXCEPT ![w] = [kind |-> "pending", stopAtSend |-> StopRequested]]
            /\ totalErrors' = totalErrors
    /\ UNCHANGED <<cfg, v2Vars, metricsVars, pctVars, initCalls, extVars, storeVars, mainVars,
                   ctxDone, stopVars, wg, lateChecks, opsBegun, recording,
                   benignNoRows, partials, lossEvents, totalInserts, totalUpdates,
                   totalBytes, insertLatencies, updateLatencies, idVars, verifyVars>>

\* the store executes the statement and decides its reply
StoreExecutes(w) ==
    /\ pc[w] = "insert_flight"
    /\ reply[w].kind = "pending"
    /\ \E o \in StoreReplies(cfg.BatchSize) :
          reply' = [reply EXCEPT ![w] = [kind |-> "decided", outcome |-> o,
                                         stopAtSend |-> reply[w].stopAtSend]]
    /\ UNCHANGED <<cfg, v2Vars, metricsVars, pctVars, initCalls, extVars, storeVars, mainVars,
                   ctxDone, stopVars, wg, workerVars, partials, lossEvents,
                   counterVars, idVars, verifyVars>>

\* QueryContext returns to batchInsert what is delivered of the reply
FlightDeliver(w) ==
    /\ pc[w] = "insert_flight"
    /\ reply[w].kind = "decided"
    /\ \E d \in Delivered(reply[w].outcome, cfg.BatchSize, ctxDone) : InsertReply(w, d)
    /\ reply' = [reply EXCEPT ![w] = [@ EXCEPT !.kind = "delivered"]]
    /\ UNCHANGED <<cfg, v2Vars, metricsVars, pctVars, initCalls, extVars, maxConnections,
                   nonIdleSessions, mainVars, ctxDone, stopVars, wg, lateOps,
                   lateChecks, opsBegun, benignNoRows, lossEvents, counterVars,
                   idVars, verifyVars>>

\* the run context is done while batchInsert has rows to read: database/sql
\* closes them, rows.Next() gives no further row and rows.Err() the error.
\* (With every identifier read it is the last rows.Next() that finds the
\* context done: RowsErr, in FlightReturn.)
FlightCancel(w) ==
    /\ pc[w] = "record_store"
    /\ reply[w].kind = "delivered"
    /\ ctxDone
    /\ ~recording[w].failed
    /\ recording' = [recording EXCEPT ![w].last = recording[w].next - 1,
                                      ![w].failed = TRUE]
    /\ partials' = partials + 1
    /\ pc' = [pc EXCEPT ![w] = "insert_return"]
    /\ UNCHANGED <<cfg, v2Vars, auxVars, storeVars, mainVars, ctxDone, stopVars, wg,
                   lateOps, lateChecks, opsBegun, benignNoRows, lossEvents,
                   counterVars, idVars, verifyVars>>

\* batchInsert returns and performInsert records the error or enters
\* RecordInsert
FlightReturn(w) ==
    /\ reply[w].kind = "delivered"
    /\ InsertReturn(w)
    /\ reply' = [reply EXCEPT ![w] =
                    [kind |-> "returned", outcome |-> reply[w].outcome,
                     stopAtSend |-> reply[w].stopAtSend,
                     stopAtReturn |-> stopChan = "closed",
                     ctxAtReturn |-> ctxDone]]
    /\ UNCHANGED <<cfg, v2Vars, metricsVars, pctVars, initCalls, extVars, storeVars,
                   mainVars, ctxDone, stopVars, wg, lateOps, lateChecks, opsBegun,
                   benignNoRows, lossEvents, totalUpdates, totalBytes,
                   insertLatencies, updateLatencies, idVars, verifyVars>>

InitFlight ==
    /\ cfg \in FlightConfigs
    /\ maxConnections \in StoreCapacities
    /\ nonIdleSessions = maxConnections - cfg.MinFreeConns
    /\ \E n \in PreexistingRows \ {0} : table = RowsOf(n) /\ nextID = n + 1
    /\ tableTouched = TRUE
    /\ mainPC = "wait"
    /\ partials = 0
    /\ seedI = 0 /\ spawnI = cfg.ConcurrentWriters
    /\ stopChan = "open" /\ closeCount = 0 /\ onceDone = FALSE /\ onceLocked = FALSE
    /\ wg = cfg.ConcurrentWriters
    /\ stopPC = [c \in Callers |-> "idle"] /\ stopCalls = [c \in Callers |-> 0]
    /\ stopContended = FALSE
    /\ pc = [w \in 1..MaxWorkers |-> IF w <= cfg.ConcurrentWriters THEN "check" ELSE "idle"]
    /\ opsBegun = 0
    /\ totalInserts = 0 /\ totalErrors = 0 /\ totalBytes = 0
    /\ insertLatencies = 0
    /\ insertedIDs = {} /\ totalInsertedIDs = 0
    /\ FreshMetricsAndVerify

FlightWorker ==
    \E w \in Workers :
        \/ WorkerCheck(w)
        \/ FlightSend(w) \/ StoreExecutes(w) \/ FlightDeliver(w) \/ FlightCancel(w)
        \/ TrackStore(w) \/ TrackCount(w)
        \/ FlightReturn(w)
        \/ RecordCall(w)

NextFlight == MainWait \/ MainStop \/ CtxExpire \/ FlightWorker

SpecFlight == InitFlight /\ [][NextFlight]_vars

(***************************************************************************)
(* SpecConfig: _main from LoadFromEnv on                                   *)
(*                                                                         *)
(* The environment supplies any of the values below; LoadFromEnv builds    *)
(* the Config and validates it, and _main either exits or goes on to       *)
(* connect, initialise and run the first engine on a table that has rows.  *)
(***************************************************************************)
ConfigError(name) == [kind |-> "config", variable |-> name]

Validate_sumOnly(c) ==
    IF c.Host = "" THEN ConfigError("DB_HOST")
    ELSE IF c.User = "" THEN ConfigError("DB_USER")
    ELSE IF c.DBName = "" THEN ConfigError("DB_NAME")
    ELSE IF c.MinFreeConns < 1 THEN ConfigError("DB_MIN_FREE_CONNS")
    ELSE IF c.ConcurrentWriters < 1 THEN ConfigError("CONCURRENT_WRITERS")
    ELSE IF c.Duration < OneSecond THEN ConfigError("TEST_RUN_DURATION")
    ELSE IF c.BatchSize < 1 THEN ConfigError("BATCH_SIZE")
    ELSE IF c.ReadPercent + c.InsertPercent + c.UpdatePercent # 100
         THEN ConfigError("PERCENT_SUM")
    ELSE IF c.ReadBatchSize < 1 THEN ConfigError("READ_BATCH_SIZE")
    ELSE NoError

\* Config.Validate: the first check that fails gives the error
Validate(c) ==
    IF c.Host = "" THEN ConfigError("DB_HOST")
    ELSE IF c.User = "" THEN ConfigError("DB_USER")
    ELSE IF c.DBName = "" THEN ConfigError("DB_NAME")
    ELSE IF c.MinFreeConns < 1 THEN ConfigError("DB_MIN_FREE_CONNS")
    ELSE IF c.ConcurrentWriters < 1 THEN ConfigError("CONCURRENT_WRITERS")
    ELSE IF c.Duration < OneSecond THEN ConfigError("TEST_RUN_DURATION")
    ELSE IF c.BatchSize < 1 THEN ConfigError("BATCH_SIZE")
    ELSE IF c.ReadPercent + c.InsertPercent + c.UpdatePercent # 100
         THEN ConfigError("PERCENT_SUM")
    ELSE IF c.ReadPercent < 0 \/ c.ReadPercent > 100 THEN ConfigError("READ_PERCENT")
    ELSE IF c.InsertPercent < 0 \/ c.InsertPercent > 100 THEN ConfigError("INSERT_PERCENT")
    ELSE IF c.UpdatePercent < 0 \/ c.UpdatePercent > 100 THEN ConfigError("UPDATE_PERCENT")
    ELSE IF c.ReadBatchSize < 1 THEN ConfigError("READ_BATCH_SIZE")
    ELSE NoError

\* values the environment may give
EnvPercents == {-50, 0, 20, 30, 50, 70, 100, 150}
EnvWriters == {0, 1}
EnvBatchSizes == {0} \cup RunBatchSizes
EnvMinFree == {0, 5}
EnvDurations == {0, DefaultDuration}
EnvReadBatchSizes == {0, DefaultReadBatchSize}
\* DB_HOST, DB_USER and DB_NAME as the environment has them: unset (or
\* empty), or set
EnvNames == {<<"", "", "">>, <<"", "loadtest", "">>, <<"pg-primary", "loadtest", "bench">>}

\* getEnv: the value of the variable, or the default when it is empty
getEnv(value, defaultValue) == IF value # "" THEN value ELSE defaultValue

\* LoadFromEnv: the Config it builds before it calls Validate
EnvConfigs ==
    {[Config(n, b, r, i, u, f) EXCEPT !.Host = getEnv(e[1], "localhost"),
                                      !.User = getEnv(e[2], "postgres"),
                                      !.DBName = getEnv(e[3], "testdb"),
                                      !.Duration = d, !.ReadBatchSize = rb] :
        n \in EnvWriters, b \in EnvBatchSizes, r \in EnvPercents, i \in EnvPercents,
        u \in EnvPercents, f \in EnvMinFree, e \in EnvNames, d \in EnvDurations,
        rb \in EnvReadBatchSizes}

\* cfg, err := config.LoadFromEnv(); if err != nil { ...; os.Exit(1) }
MainLoadConfig ==
    /\ mainPC = "load"
    /\ LET err == Validate(cfg)
       IN IF err = NoError
          THEN mainPC' = "connect" /\ exitErr' = NoError
          ELSE Exit(err)
    /\ UNCHANGED <<cfg, v2Vars, auxVars, storeVars, seedI, spawnI, report, cleanupResult, ctxDone,
                   stopVars, wg, workerVars, partials, lossEvents, counterVars,
                   idVars, verifyVars>>

InitConfig ==
    /\ cfg \in EnvConfigs
    /\ maxConnections \in StoreCapacities
    /\ nonIdleSessions = maxConnections - DefaultMaxOpenConns
    /\ \E n \in PreexistingRows \ {0} : table = RowsOf(n) /\ nextID = n + 1
    /\ tableTouched = FALSE
    /\ mainPC = "load"
    /\ partials = MaxPartial
    /\ FreshEngine
    /\ FreshMetricsAndVerify

NextConfig ==
    \/ MainLoadConfig
    \/ MainConnect \/ MainInitCreate \/ MainInitCount
    \/ MainStart \/ MainWait \/ MainStop
    \/ Worker
    \/ CtxExpire

SpecConfig == InitConfig /\ [][NextConfig]_vars

(***************************************************************************)
(* SpecOps: worker operations on a table that other sessions change        *)
(*                                                                         *)
(* The run of SpecStop without the extra Stop() callers, with batches that *)
(* may fail part-way, and with another session that deletes the rows of    *)
(* the table while the workers run, so that the row lookup of              *)
(* performUpdate can come back empty.                                      *)
(***************************************************************************)
\* another session deletes every row of the test table
RowsDeleted ==
    /\ mainPC \in {"start", "wait", "stop"}
    /\ lossEvents < MaxLoss
    /\ Card(table) > 0
    /\ table' = {}
    /\ lossEvents' = lossEvents + 1
    /\ UNCHANGED <<cfg, v2Vars, auxVars, maxConnections, nonIdleSessions, nextID, tableTouched,
                   mainVars, ctxDone, stopVars, wg, workerVars, partials,
                   counterVars, idVars, verifyVars>>

InitOps ==
    /\ cfg \in RunConfigs
    /\ maxConnections \in StoreCapacities
    /\ nonIdleSessions = maxConnections - cfg.MinFreeConns
    /\ \E n \in PreexistingRows \ {0} : table = RowsOf(n) /\ nextID = n + 1
    /\ tableTouched = TRUE
    /\ mainPC = "start"
    /\ partials = 0
    /\ FreshEngine
    /\ FreshMetricsAndVerify

NextOps ==
    \/ MainStart \/ MainWait \/ MainStop
    \/ Worker
    \/ CtxExpire \/ RowsDeleted

SpecOps == InitOps /\ [][NextOps]_vars

(***************************************************************************)
(* SpecV2: the mixed read/insert/update engine (LoadGeneratorV2)           *)
(*                                                                         *)
(* The run starts after Initialize: the table holds the rows it had, or    *)
(* the 50,000 seed rows.  Start, Stop and the worker's select are the same *)
(* code as in the first engine.  Every statement sent to the store, every  *)
(* row scanned, every access to totalRows and every statement of the       *)
(* MetricsV2 call that follows is a step.                                  *)
(***************************************************************************)
DieValues == 0..(DieSides - 1)

V2Workloads == {<<50, 30, 20>>, <<0, 70, 30>>, <<100, 0, 0>>, <<0, 100, 0>>,
                <<0, 0, 100>>, <<1, 98, 1>>, <<99, 1, 0>>, <<33, 33, 34>>}

\* READ_BATCH_SIZE of the runs of SpecV2
V2ReadBatchSizes == {1, 2}

\* the workers of a run of SpecV2 together read at most this many rows with
\* one statement each
MaxReadRows == 2

V2Configs ==
    {c \in {WithReadBatch(Config(n, b, m[1], m[2], m[3], 5), rb) :
                n \in 1..MaxWorkers, b \in RunBatchSizes, m \in V2Workloads,
                rb \in V2ReadBatchSizes} :
        c.ConcurrentWriters * c.ReadBatchSize <= MaxReadRows}

PickOperationV2_inclusive(roll, c) ==
    IF roll <= c.ReadPercent THEN "read"
    ELSE IF roll <= c.ReadPercent + c.InsertPercent THEN "insert"
    ELSE "update"

\* LoadGeneratorV2.worker: the operation a die value selects
PickOperationV2(roll, c) ==
    IF roll < c.ReadPercent THEN "read"
    ELSE IF roll < c.ReadPercent + c.InsertPercent THEN "insert"
    ELSE "update"

\* LoadGeneratorV2.batchInsert: INSERT ... VALUES through ExecContext; no
\* identifier is read back, none is recorded
ApplyBatchV2(st, n, failed) ==
    [table |-> IF failed THEN st.table
               ELSE AddBlock(st.table, st.nextID, st.nextID + n - 1),
     nextID |-> IF failed THEN st.nextID ELSE st.nextID + n,
     insertedIDs |-> st.insertedIDs,
     totalInsertedIDs |-> st.totalInsertedIDs]

\* err of a statement that was sent with a live context: it fails or
\* succeeds.  A context that ends while the statement is in flight makes the
\* driver ask the server to cancel it, which may or may not come in time;
\* database/sql returns what the driver returns
StatementFails == {TRUE, FALSE}

V2WorkerCheck(w) ==
    /\ pc[w] = "check"
    /\ IF WorkerShouldExit(ctxDone, stopChan = "closed")
       THEN /\ pc' = [pc EXCEPT ![w] = "exited"]
            /\ wg' = wg - 1
            /\ UNCHANGED <<opsBegun, lateChecks>>
       ELSE /\ opsBegun < MaxOps
            /\ \E roll \in DieValues :
                  pc' = [pc EXCEPT ![w] = PickOperationV2(roll, cfg)]
            /\ opsBegun' = opsBegun + 1
            /\ lateChecks' = [lateChecks EXCEPT ![w] = IF StopRequested THEN @ + 1 ELSE @]
            /\ wg' = wg
    /\ UNCHANGED <<cfg, v2Vars, auxVars, storeVars, mainVars, ctxDone, stopVars, lateOps,
                   recording, benignNoRows, partials, lossEvents, counterVars,
                   idVars, verifyVars>>

\* performRead: readPattern := rng.Intn(4), and the read function up to
\* QueryContext.  readByIDRange loads totalRows first and returns an error
\* without a statement when it is 0; a context that is done makes
\* database/sql return ctx.Err() without sending the statement
V2PerformRead(w) ==
    /\ pc[w] = "read"
    /\ \E readPattern \in 0..3 :
          IF (readPattern = 0 /\ totalRows = 0) \/ ctxDone
          THEN /\ reply' = [reply EXCEPT ![w] = RowsReply(readPattern, 0, 0, TRUE)]
               /\ pc' = [pc EXCEPT ![w] = "read_rows"]
               /\ lateOps' = lateOps
          ELSE /\ reply' = [reply EXCEPT ![w] = [kind |-> "select",
                                                 readPattern |-> readPattern]]
               /\ pc' = [pc EXCEPT ![w] = "read_flight"]
               /\ lateOps' = Late(w)
    /\ UNCHANGED <<cfg, v2Vars, metricsVars, pctVars, initCalls, extVars, storeVars,
                   mainVars, ctxDone, stopVars, wg, lateChecks, opsBegun, recording,
                   benignNoRows, partials, lossEvents, counterVars, idVars,
                   verifyVars>>

\* the SELECT ... LIMIT ReadBatchSize returns: an error, or rows, of which
\* the reading can end with an error (rows.Scan, rows.Err)
V2ReadReply(w) ==
    /\ pc[w] = "read_flight"
    /\ \E failed \in StatementFails, k \in 0..cfg.ReadBatchSize :
          reply' = [reply EXCEPT ![w] = RowsReply(reply[w].readPattern, k, 0, failed)]
    /\ pc' = [pc EXCEPT ![w] = "read_rows"]
    /\ UNCHANGED <<cfg, v2Vars, metricsVars, pctVars, initCalls, extVars, storeVars,
                   mainVars, ctxDone, stopVars, wg, lateOps, lateChecks, opsBegun,
                   recording, benignNoRows, partials, lossEvents, counterVars,
                   idVars, verifyVars>>

\* rows.Next(), rows.Scan(...), bytesRead += the lengths of the columns
V2ReadRow(w) ==
    /\ pc[w] = "read_rows"
    /\ reply[w].left > 0
    /\ \E row \in RowShapes :
          reply' = [reply EXCEPT ![w].left = @ - 1,
                                 ![w].bytes = @ + RowBytes(row, reply[w].readPattern)]
    /\ UNCHANGED <<cfg, v2Vars, metricsVars, pctVars, initCalls, extVars, storeVars,
                   mainVars, ctxDone, stopVars, wg, workerVars, partials, lossEvents,
                   counterVars, idVars, verifyVars>>

\* the read function returns to performRead, which calls RecordError(), or
\* enters RecordRead(latency, bytesRead) and does its first statement,
\* m.totalReads.Add(1)
V2ReadReturn(w) ==
    /\ pc[w] = "read_rows"
    /\ reply[w].left = 0
    /\ IF reply[w].failed
       THEN /\ RecordError
            /\ totalReads' = totalReads
            /\ reply' = [reply EXCEPT ![w] = NoReply]
            /\ pc' = [pc EXCEPT ![w] = "check"]
       ELSE /\ totalReads' = AtomicAdd(totalReads, 1)
            /\ totalErrors' = totalErrors
            /\ reply' = reply
            /\ pc' = [pc EXCEPT ![w] = AtBytes("read")]
    /\ UNCHANGED <<cfg, engine, totalRows, readLatencies, metricsVars, pctVars, initCalls,
                   extVars, storeVars, mainVars, ctxDone, stopVars, wg, lateOps,
                   lateChecks, opsBegun, recording, benignNoRows, partials,
                   lossEvents, totalInserts, totalUpdates, totalBytes,
                   insertLatencies, updateLatencies, idVars, verifyVars>>

\* performInsert: the records are generated, and batchInsert up to
\* ExecContext sending the statement
V2PerformInsert(w) ==
    /\ pc[w] = "insert"
    /\ IF ctxDone
       THEN /\ RecordError
            /\ pc' = [pc EXCEPT ![w] = "check"]
            /\ lateOps' = lateOps
       ELSE /\ pc' = [pc EXCEPT ![w] = "insert_flight"]
            /\ lateOps' = Late(w)
            /\ totalErrors' = totalErrors
    /\ UNCHANGED <<cfg, v2Vars, auxVars, storeVars, mainVars, ctxDone, stopVars, wg,
                   lateChecks, opsBegun, recording, benignNoRows, partials,
                   lossEvents, totalInserts, totalUpdates, totalBytes,
                   insertLatencies, updateLatencies, idVars, verifyVars>>

\* the INSERT returns to performInsert: RecordError(), or the rows are in
\* the table
V2InsertReply(w) ==
    /\ pc[w] = "insert_flight"
    /\ \E failed \in StatementFails :
          LET st == ApplyBatchV2(StoreState, cfg.BatchSize, failed)
          IN /\ table' = st.table /\ nextID' = st.nextID
             /\ insertedIDs' = st.insertedIDs
             /\ totalInsertedIDs' = st.totalInsertedIDs
             /\ IF failed
                THEN RecordError /\ pc' = [pc EXCEPT ![w] = "check"]
                ELSE totalErrors' = totalErrors /\ pc' = [pc EXCEPT ![w] = "insert_count"]
    /\ UNCHANGED <<cfg, v2Vars, auxVars, maxConnections, nonIdleSessions, tableTouched,
                   mainVars, ctxDone, stopVars, wg, lateOps, lateChecks, opsBegun,
                   recording, benignNoRows, partials, lossEvents, totalInserts,
                   totalUpdates, totalBytes, insertLatencies, updateLatencies,
                   verifyVars>>

\* lg.totalRows.Add(int64(len(records)))
V2CountRows(w) ==
    /\ pc[w] = "insert_count"
    /\ totalRows' = AtomicAdd(totalRows, cfg.BatchSize)
    /\ pc' = [pc EXCEPT ![w] = "insert_record"]
    /\ UNCHANGED <<cfg, engine, totalReads, readLatencies, auxVars, storeVars, mainVars,
                   ctxDone, stopVars, wg, lateOps, lateChecks, opsBegun, recording,
                   benignNoRows, partials, lossEvents, counterVars, idVars,
                   verifyVars>>

\* RecordInsert(latency, len(records) * 600) is entered: its first
\* statement, m.totalInserts.Add(1)
V2RecordInsert(w) ==
    /\ pc[w] = "insert_record"
    /\ totalInserts' = AtomicAdd(totalInserts, 1)
    /\ pc' = [pc EXCEPT ![w] = AtBytes("insert")]
    /\ UNCHANGED <<cfg, v2Vars, auxVars, storeVars, mainVars, ctxDone, stopVars, wg,
                   lateOps, lateChecks, opsBegun, recording, benignNoRows, partials,
                   lossEvents, totalUpdates, totalErrors, totalBytes,
                   insertLatencies, updateLatencies, idVars, verifyVars>>

\* performUpdate: totalRows := lg.totalRows.Load(); with 0 it returns and
\* records nothing
V2PerformUpdate(w) ==
    /\ pc[w] = "update"
    /\ pc' = [pc EXCEPT ![w] = IF totalRows = 0 THEN "check" ELSE "update_send"]
    /\ UNCHANGED <<cfg, v2Vars, auxVars, storeVars, mainVars, ctxDone, stopVars, wg,
                   lateOps, lateChecks, opsBegun, recording, benignNoRows, partials,
                   lossEvents, counterVars, idVars, verifyVars>>

\* the record is generated, and ExecContext sends the UPDATE ... WHERE
\* id = randomID
V2UpdateSend(w) ==
    /\ pc[w] = "update_send"
    /\ IF ctxDone
       THEN /\ RecordError
            /\ pc' = [pc EXCEPT ![w] = "check"]
            /\ lateOps' = lateOps
       ELSE /\ pc' = [pc EXCEPT ![w] = "update_exec_flight"]
            /\ lateOps' = Late(w)
            /\ totalErrors' = totalErrors
    /\ UNCHANGED <<cfg, v2Vars, auxVars, storeVars, mainVars, ctxDone, stopVars, wg,
                   lateChecks, opsBegun, recording, benignNoRows, partials,
                   lossEvents, totalInserts, totalUpdates, totalBytes,
                   insertLatencies, updateLatencies, idVars, verifyVars>>

\* the UPDATE returns to performUpdate, which calls RecordError(), or
\* enters RecordUpdate(latency, 500) and does its first statement,
\* m.totalUpdates.Add(1); the number of rows the statement changed is not
\* looked at
V2UpdateReply(w) ==
    /\ pc[w] = "update_exec_flight"
    /\ \E failed \in StatementFails :
          IF failed
          THEN /\ RecordError
               /\ totalUpdates' = totalUpdates
               /\ pc' = [pc EXCEPT ![w] = "check"]
          ELSE /\ totalUpdates' = AtomicAdd(totalUpdates, 1)
               /\ totalErrors' = totalErrors
               /\ pc' = [pc EXCEPT ![w] = AtBytes("update")]
    /\ UNCHANGED <<cfg, v2Vars, auxVars, storeVars, mainVars, ctxDone, stopVars, wg,
                   lateOps, lateChecks, opsBegun, recording, benignNoRows, partials,
                   lossEvents, totalInserts, totalBytes, insertLatencies,
                   updateLatencies, idVars, verifyVars>>

\* LoadGeneratorV2.Initialize has returned: an empty table was seeded
InitV2 ==
    /\ cfg \in V2Configs
    /\ engine = "v2"
    /\ maxConnections \in StoreCapacities
    /\ nonIdleSessions = maxConnections - cfg.MinFreeConns
    /\ \E n \in (PreexistingRows \ {0}) \cup {V2SeedCount} :
          table = RowsOf(n) /\ nextID = n + 1 /\ totalRows = n
    /\ tableTouched = TRUE
    /\ mainPC = "start"
    /\ partials = 0
    /\ FreshEngine
    /\ totalUpdates = 0 /\ totalReads = 0 /\ readLatencies = 0
    /\ dlCtxDone = FALSE /\ vPC = "idle" /\ vCalls = 0 /\ vIDs = <<>> /\ vI = 0
    /\ vFound = 0 /\ vQueries = 0 /\ vLog = <<>> /\ vResult = NoResult
    /\ report = [verdict |-> "pending"] /\ cleanupResult = "pending"
    /\ lossEvents = 0 /\ ctxDone = FALSE /\ exitErr = NoError
    /\ lateOps = [w \in 1..MaxWorkers |-> 0]
    /\ lateChecks = [w \in 1..MaxWorkers |-> 0]
    /\ recording = [w \in 1..MaxWorkers |-> NoRows]
    /\ IdleAux
    /\ benignNoRows = 0 /\ updateLatencies = 0

\* the steps of worker w inside performRead
V2Read(w) == V2PerformRead(w) \/ V2ReadReply(w) \/ V2ReadRow(w) \/ V2ReadReturn(w)

\* the steps of worker w inside performInsert
V2Insert(w) ==
    V2PerformInsert(w) \/ V2InsertReply(w) \/ V2CountRows(w) \/ V2RecordInsert(w)

\* the steps of worker w inside performUpdate
V2Update(w) == V2PerformUpdate(w) \/ V2UpdateSend(w) \/ V2UpdateReply(w)

V2Worker ==
    \E w \in Workers :
        V2WorkerCheck(w) \/ V2Read(w) \/ V2Insert(w) \/ V2Update(w) \/ RecordCall(w)

NextV2 ==
    \/ MainStart \/ MainWait \/ MainStop
    \/ V2Worker
    \/ CtxExpire

SpecV2 == InitV2 /\ [][NextV2]_vars

(***************************************************************************)
(* SpecInit: Initialize, called again                                      *)
(*                                                                         *)
(* Initialize on an empty table and on a table with rows; after it has     *)
(* returned without error it is called again, with or without the rows of  *)
(* the table having been deleted in between; then Start.                   *)
(***************************************************************************)
\* Initialize calls after the first
MaxInitCalls == 1

\* lg.Initialize(ctx) is called once more before Start
InitializeAgain ==
    /\ mainPC = "start"
    /\ spawnI = 0
    /\ initCalls < MaxInitCalls
    /\ initCalls' = initCalls + 1
    /\ mainPC' = "init_create"
    /\ seedI' = 0
    /\ UNCHANGED <<cfg, v2Vars, metricsVars, pctVars, reply, extVars, storeVars, exitErr,
                   spawnI, report, cleanupResult, ctxDone, stopVars, wg, workerVars,
                   partials, lossEvents, counterVars, idVars, verifyVars>>

InitInitialize ==
    /\ cfg \in RunConfigs
    /\ maxConnections \in StoreCapacities
    /\ nonIdleSessions = maxConnections - cfg.MinFreeConns
    /\ \E n \in PreexistingRows : table = RowsOf(n) /\ nextID = n + 1
    /\ tableTouched = FALSE
    /\ mainPC = "init_create"
    /\ partials = 0
    /\ FreshEngine
    /\ FreshMetricsAndVerify

NextInit ==
    \/ MainInitCreate \/ MainInitCount \/ MainSeed
    \/ InitializeAgain \/ RowsDeleted
    \/ MainStart
    \/ CtxExpire

SpecInit == InitInitialize /\ [][NextInit]_vars

(***************************************************************************)
(* Properties                                                              *)
(***************************************************************************)
\* the log lines of CheckDataLoss so far
Printed == {vLog[k] : k \in 1..Len(vLog)}

\* line 344: "Using optimized range-based verification for large dataset..."
RangePath == "using_range" \in Printed

\* the tracked identifiers as CheckDataLoss holds them, back as a set of runs
Snapshot == {vIDs[k] : k \in 1..Len(vIDs)}

\* C1: Stop is idempotent and safe under repeated or concurrent calls: the
\* stop channel is closed at most once (a second close would panic), and
\* whenever any Stop() call has returned the channel has been closed exactly
\* once and every worker has exited.
C1_StopIdempotent ==
    /\ closeCount <= 1
    /\ (\E c \in Callers : stopPC[c] = "returned")
          => /\ closeCount = 1
             /\ stopChan = "closed"
             /\ AllWorkersExited
             /\ wg = 0

\* C1 witness: every caller has returned, one of them from its second call,
\* and one call arrived while another was inside the teardown
C1_Witness ==
    /\ \A c \in Callers : stopPC[c] = "returned"
    /\ \E c \in Callers : stopCalls[c] = MaxStopCalls
    /\ stopContended
    /\ closeCount = 1
    /\ cfg.ConcurrentWriters = MaxWorkers
    /\ opsBegun > 0

\* C2 as stated: once a stop request has been made or the run context is
\* cancelled, no worker begins a store statement.
C2_NoStatementAfterStop == \A w \in 1..MaxWorkers : lateOps[w] = 0

\* C2 amended: once a stop request has been made or the run context is
\* cancelled, no worker passes its pre-iteration check, so no new iteration
\* begins; a worker whose check came before the request still issues the
\* statements of that one iteration (one INSERT, or a SELECT and an UPDATE).
C2_NoIterationAfterStop ==
    \A w \in 1..MaxWorkers :
        /\ lateChecks[w] = 0
        /\ lateOps[w] <= 2

\* C2 witness: a worker has exited after issuing both statements of an
\* update iteration after Stop() closed the channel
C2_Witness ==
    \E w \in Workers : pc[w] = "exited" /\ lateOps[w] = 2 /\ stopChan = "closed"


\* C3: in the orchestrator CheckDataLoss starts only after Stop() has
\* returned with every worker exited, it is invoked at most once and exactly
\* once in a run that completes, and from its start on the tracked set is
\* the one it read: no identifier is recorded during the verification.
C3_VerifyOnceAfterDrain ==
    /\ vCalls <= 1
    /\ (vPC # "idle") => /\ vCalls = 1
                         /\ stopPC[0] = "returned"
                         /\ AllWorkersExited
                         /\ wg = 0
                         /\ Snapshot = insertedIDs
                         /\ SliceLen(vIDs) = totalInsertedIDs
    /\ (mainPC \in {"cleanup", "done"}) => vCalls = 1 /\ vPC = "done"

\* C3 witness: a completed run whose workers inserted batches and whose one
\* verification returned a result
C3_Witness ==
    /\ mainPC = "done"
    /\ vCalls = 1
    /\ vResult.err = "nil"
    /\ totalInserts > 0
    /\ Card(insertedIDs) > SeedCount
    /\ cfg.ConcurrentWriters = MaxWorkers

\* C4: with fewer tracked identifiers than the threshold, CheckDataLoss
\* returns total = n and lost = the number of tracked identifiers that are
\* not rows of the table (0 when all are present, k when k were deleted).
C4_ChunkedExact ==
    (vPC = "done" /\ vResult.err = "nil" /\ Card(insertedIDs) < RangeThreshold)
        => /\ vResult.total = Card(insertedIDs)
           /\ vResult.lost = Card(insertedIDs) - CountCommon(insertedIDs, table)
           /\ ~RangePath

\* C4 witness: several chunks were counted and exactly the one deleted row
\* is reported lost
C4_Witness ==
    /\ vPC = "done" /\ vResult.err = "nil"
    /\ Card(insertedIDs) < RangeThreshold
    /\ vQueries > 1
    /\ lossEvents = 1
    /\ vResult.lost = 1

\* C5 as stated: the chunked path is used exactly when n < 100,000 and the
\* range path exactly when n >= 100,000, n = 100,000 included.
C5_RangeAtThreshold ==
    (vPC # "idle" /\ Card(insertedIDs) > 0)
        => (RangePath <=> Card(insertedIDs) >= RangeThreshold)

\* C5 amended: the chunked path is used exactly when 0 < n <= 100,000 and the
\* range path exactly when n > 100,000; at n = 100,000 the tracked set is
\* still checked chunk by chunk.
C5_RangeAboveThreshold ==
    (vPC # "idle" /\ Card(insertedIDs) > 0)
        => (RangePath <=> Card(insertedIDs) > RangeThreshold)

\* C5 witness: exactly 100,000 tracked identifiers verified by ten chunk
\* queries and no range query
C5_Witness ==
    /\ vPC = "done" /\ vResult.err = "nil"
    /\ Card(insertedIDs) = RangeThreshold
    /\ ~RangePath
    /\ vQueries = TotalBatches(RangeThreshold)
    /\ vResult.total = RangeThreshold

\* C6: on the range path the result has lost = max(n - rangeCount, 0) and
\* the report gives found = min(rangeCount, n), rangeCount being the number
\* of rows with an id between the least and the greatest tracked identifier.
C6_RangeResult ==
    (vPC = "done" /\ vResult.err = "nil" /\ RangePath)
        => LET n == Card(insertedIDs)
               rangeCount == CountIn(table, MinID(insertedIDs), MaxID(insertedIDs))
           IN /\ vResult.total = n
              /\ vResult.lost = Max(n - rangeCount, 0)
              /\ vResult.total - vResult.lost = Min(rangeCount, n)
              /\ (mainPC = "cleanup")
                    => /\ report.found = Min(rangeCount, n)
                       /\ report.lost = Max(n - rangeCount, 0)

\* C6 witness: a reported range-path result whose range holds more rows than
\* there are tracked identifiers, so that found is capped at n
C6_Witness ==
    /\ mainPC = "cleanup" /\ vResult.err = "nil" /\ RangePath
    /\ CountIn(table, MinID(insertedIDs), MaxID(insertedIDs)) > Card(insertedIDs)
    /\ report.found = Card(insertedIDs)
    /\ report.lost = 0

\* C7 as stated: when n is at or above the threshold and no tracked row has
\* been removed, the range count is at least n, the verification issues
\* exactly one store query and it reports lost = 0.
C7_OneQueryAtOrAboveThreshold ==
    (/\ vPC = "done" /\ vResult.err = "nil"
     /\ Card(insertedIDs) >= RangeThreshold
     /\ CountCommon(insertedIDs, table) = Card(insertedIDs))
        => /\ CountIn(table, MinID(insertedIDs), MaxID(insertedIDs)) >= Card(insertedIDs)
           /\ vQueries = 1
           /\ vResult.lost = 0

\* C7 amended: when n is above the threshold and no tracked row has been
\* removed, the range count is at least n, the verification issues exactly
\* one store query and it reports lost = 0.
C7_OneQueryAboveThreshold ==
    (/\ vPC = "done" /\ vResult.err = "nil"
     /\ Card(insertedIDs) > RangeThreshold
     /\ CountCommon(insertedIDs, table) = Card(insertedIDs))
        => /\ CountIn(table, MinID(insertedIDs), MaxID(insertedIDs)) >= Card(insertedIDs)
           /\ vFound >= Card(insertedIDs)
           /\ vQueries = 1
           /\ vResult.lost = 0
           /\ vResult.total = Card(insertedIDs)

\* C7 witness: more than 100,000 tracked identifiers, all of them rows of
\* the table, verified by one query with nothing lost
C7_Witness ==
    /\ vPC = "done" /\ vResult.err = "nil"
    /\ Card(insertedIDs) > RangeThreshold
    /\ CountCommon(insertedIDs, table) = Card(insertedIDs)
    /\ RangePath
    /\ vQueries = 1
    /\ vResult.lost = 0

\* C8 as stated: every result says whether it is exact or approximate: a
\* result of the range path carries the range-estimation note whatever its
\* loss figure, a result of the chunked path never does.
C8_ResultFlagged ==
    (vPC = "done" /\ vResult.err = "nil" /\ Card(insertedIDs) > 0)
        => ("note_range_estimation" \in Printed <=> RangePath)

\* C9: a verification whose context is done before a chunk query or before
\* the range query, or whose count query fails, returns an error with
\* total = 0 and lost = 0 whatever it had counted, has issued no query after
\* the ones that preceded the abort, and _main reports no loss figure.
C9_AbortWithoutPartial ==
    (vPC = "done" /\ vResult.err # "nil")
        => /\ vResult.err \in {"cancelled", "query_failed"}
           /\ vResult.total = 0 /\ vResult.lost = 0
           /\ vResult.err = "cancelled" => vQueries = vI \div ChunkSize
           /\ vQueries <= vI \div ChunkSize + 1
           /\ dlCtxDone => vQueries = vI \div ChunkSize
           /\ (mainPC = "cleanup") => report = [verdict |-> "check_failed"]

\* C9 witness: the context ended after chunks had been counted and the
\* counts were dropped
C9_Witness ==
    /\ vPC = "done" /\ vResult.err = "cancelled"
    /\ vFound > 0 /\ vQueries > 0
    /\ vResult.total = 0 /\ vResult.lost = 0

\* C10: available = max_connections - non-idle sessions and the run passes
\* the capacity check exactly when available >= MinFreeConns; otherwise the
\* error carries max, current, available and required_free, _main exits,
\* no worker is spawned and no statement touches the test table.
C10_CapacityGate ==
    LET available == maxConnections - nonIdleSessions
    IN /\ (exitErr.kind = "insufficient")
             => /\ available < cfg.MinFreeConns
                /\ exitErr = [kind |-> "insufficient", max |-> maxConnections,
                              current |-> nonIdleSessions, available |-> available,
                              required_free |-> cfg.MinFreeConns]
                /\ mainPC = "exit1"
                /\ \A w \in 1..MaxWorkers : pc[w] = "idle"
                /\ spawnI = 0 /\ wg = 0 /\ opsBegun = 0
                /\ ~tableTouched
                /\ insertedIDs = {}
       /\ (available < cfg.MinFreeConns /\ mainPC # "connect")
             => /\ mainPC = "exit1"
                /\ exitErr.kind \in {"insufficient", "ping_failed", "stats_failed"}
       /\ (available >= cfg.MinFreeConns) => exitErr.kind # "insufficient"

\* C10 witness: available = 2 with a required headroom of 5, the run refused
C10_Witness ==
    /\ exitErr.kind = "insufficient"
    /\ exitErr.available = 2
    /\ exitErr.required_free = 5
    /\ mainPC = "exit1"


\* connections of the client's pool that carry a statement right now: one per
\* worker whose statement is in flight (db.SetMaxOpenConns caps them)
ClientConnsInUse ==
    Min(Cardinality({w \in Workers : pc[w] \in InFlight}), cfg.MaxOpenConns)

\* C11 as stated: once the capacity check has passed, the connections the
\* client may open (MaxOpenConns) together with the other sessions seen at
\* start never exceed max_connections - MinFreeConns, so at least
\* MinFreeConns connections stay free while the workers run.
C11_MinFreeKept ==
    (mainPC \notin {"connect", "exit1"})
        => /\ nonIdleSessions + cfg.MaxOpenConns <= maxConnections - cfg.MinFreeConns
           /\ maxConnections - nonIdleSessions - ClientConnsInUse >= cfg.MinFreeConns


\* C12: once all workers have stopped, every identifier the store returned
\* for a successful batch insert is in the tracked set, however the
\* workers' RecordInsertedID calls interleaved, and GetInsertedIDs called
\* after Stop lists every recorded identifier exactly once.
C12_NoLostIdentifier ==
    /\ AllWorkersExited
          => /\ insertedIDs = table
             /\ totalInsertedIDs = Card(table)
             /\ totalInserts = cfg.ConcurrentWriters
    /\ (vPC # "idle")
          => /\ AllWorkersExited
             /\ Snapshot = table
             /\ SliceLen(vIDs) = Card(table)
             /\ \A j, k \in 1..Len(vIDs) :
                   j # k => Overlap(vIDs[j][1], vIDs[j][2], vIDs[k][1], vIDs[k][2]) = 0

\* C12 witness: GetInsertedIDs has listed the seed identifiers and those of
\* all workers' batches after a Stop() that was called while the workers
\* were still reading identifiers
C12_Witness ==
    /\ vPC # "idle"
    /\ SliceLen(vIDs) = SeedCount + MaxWorkers * cfg.BatchSize
    /\ \E w \in Workers : lateChecks[w] = 0 /\ pc[w] = "exited"
    /\ totalInsertedIDs = SeedCount + MaxWorkers * cfg.BatchSize


\* C13: the second engine records the identifiers of every successful batch
\* insert as the first one does: the tracked set holds at least BatchSize
\* identifiers for every insert counted.
C13_V2RecordsInsertedIDs ==
    /\ Card(insertedIDs) >= cfg.BatchSize * totalInserts
    /\ totalInsertedIDs >= cfg.BatchSize * totalInserts


\* the engine has been initialised and _main has not exited with an error
EngineReady ==
    mainPC \notin {"connect", "init_create", "init_count", "seed", "exit1"}

\* no worker is reading the reply of an INSERT ... RETURNING id or about to
\* return from batchInsert
InsertsSettled ==
    \A w \in Workers : pc[w] \notin {"record_store", "record_count", "insert_return"}

\* the workers at one of the positions
At(positions) == Cardinality({w \in Workers : pc[w] \in positions})

\* the identifiers the workers of W have recorded of the replies they are
\* reading, or have read, without error and not yet counted as an insert
RECURSIVE PendingIDs(_)
PendingIDs(W) ==
    IF W = {} THEN 0
    ELSE LET w == CHOOSE x \in W : TRUE
         IN (IF pc[w] \in {"record_store", "record_count", "insert_return"}
                   /\ ~recording[w].failed
             THEN recording[w].next - recording[w].first
             ELSE 0) + PendingIDs(W \ {w})

\* C14 as stated: seed rows are not tracked, so the number of tracked
\* identifiers is BatchSize times the number of successful insert operations
\* (whenever no insert is in progress).
C14_TotalIsWorkerInserts ==
    (EngineReady /\ InsertsSettled) => Card(insertedIDs) = cfg.BatchSize * totalInserts

\* C14: the tracked set holds only identifiers this engine's batchInsert read
\* back: those of the seed batches of Initialize (when the table was empty),
\* those of the successful worker inserts, and those a failed batch had read
\* before it failed (all of its identifiers, when the context ends at the
\* last rows.Next()).  Whenever no insert is in progress its size is
\* SeedCount (if seeded) plus BatchSize times totalInserts plus the
\* identifiers of failed batches; while a worker reads a reply, the
\* identifiers it has recorded so far come on top, and the counter trails
\* the set by the identifiers stored and not yet counted.
C14_TrackedIsSeedsAndBatches ==
    /\ Card(insertedIDs) = totalInsertedIDs + At({"record_count"})
    /\ insertedIDs # {} => MaxID(insertedIDs) < nextID
    /\ totalInsertedIDs >= seedI + cfg.BatchSize * totalInserts + PendingIDs(Workers)
    /\ totalInsertedIDs <= seedI + cfg.BatchSize * totalInserts + PendingIDs(Workers)
                              + partials * Max(cfg.BatchSize, SeedBatch \div 2)
    /\ EngineReady => seedI \in {0, SeedCount}
    /\ (EngineReady /\ partials = 0 /\ InsertsSettled)
          => /\ totalInsertedIDs = seedI + cfg.BatchSize * totalInserts
             /\ Card(insertedIDs) = totalInsertedIDs

\* C14 witness: a seeded run whose workers have stopped after a successful
\* insert: the seed identifiers and the batch are tracked
C14_Witness ==
    /\ AllWorkersExited /\ stopPC[0] = "returned"
    /\ seedI = SeedCount
    /\ totalInserts >= 1
    /\ totalInsertedIDs = SeedCount + cfg.BatchSize * totalInserts


\* performInsert of worker w learns in this step how its batch insert ended
InsertReturns(w) ==
    /\ pc[w] \in {"insert", "insert_return"}
    /\ pc'[w] \in {"check", "ri_bytes"}

\* worker w takes a step of the RecordInsert call it is in
InRecordInsert(w) == KindOf(pc[w]) = "insert" /\ pc'[w] # pc[w]

\* C15: a batch insert that fails counts exactly one error and leaves the
\* insert counter, the byte total and the insert latency buffer as they
\* were; one that succeeds (all BatchSize identifiers read back) adds 1 to
\* the insert counter, the batch's estimated size to the byte total and one
\* sample to the latency buffer, and leaves the error counter as it was.
\* The three additions of a success are three statements of RecordInsert:
\* the byte total and the buffer follow the counter.  A batch whose reading
\* failed is counted as a failure; one read to the end with the context
\* live is counted as a success.
C15_InsertAccounting ==
    /\ [](/\ totalBytes = cfg.BatchSize * InsertRowBytes * (totalInserts - At({"ri_bytes"}))
                            + UpdateBytes * (totalUpdates - At({"ru_bytes"}))
          /\ insertLatencies
                = Min(totalInserts - At({"ri_bytes", "ri_lock", "ri_append"}), LatencyCap))
    /\ [][\A w \in Workers :
            /\ InsertReturns(w) =>
                 /\ IF pc'[w] = "ri_bytes"
                    THEN /\ pc[w] = "insert_return" /\ ~recording[w].failed
                         /\ recording[w].next - recording[w].first = cfg.BatchSize
                         /\ totalInserts' = totalInserts + 1
                         /\ totalErrors' = totalErrors
                         /\ UNCHANGED <<totalUpdates, updateLatencies>>
                    ELSE /\ totalErrors' = totalErrors + 1
                         /\ UNCHANGED <<totalInserts, totalBytes, insertLatencies,
                                        totalUpdates, updateLatencies>>
                 /\ (pc[w] = "insert" \/ recording[w].failed) => pc'[w] = "check"
                 /\ (pc[w] = "insert_return" /\ ~recording[w].failed /\ ~ctxDone)
                       => pc'[w] = "ri_bytes"
            /\ InRecordInsert(w) =>
                 /\ UNCHANGED <<totalInserts, totalErrors, totalUpdates, updateLatencies>>
                 /\ pc[w] = "ri_bytes"
                       => totalBytes' = totalBytes + cfg.BatchSize * InsertRowBytes
                 /\ pc[w] = "ri_append"
                       => insertLatencies' = Min(insertLatencies + 1, LatencyCap)]_vars

\* C15 witness: one worker batch succeeded and another failed part-way: one
\* insert with its bytes and its sample, one error
C15_Witness ==
    /\ EngineReady /\ partials = 1
    /\ totalInserts = 1 /\ totalErrors = 1 /\ totalUpdates = 0
    /\ totalBytes = cfg.BatchSize * InsertRowBytes
    /\ insertLatencies = 1
    /\ \A w \in Workers : pc[w] \in {"check", "exited"}


\* performUpdate of worker w learns in this step how its update ended
UpdateReturns(w) ==
    /\ pc[w] \in {"update", "update_select_flight", "update_exec_flight"}
    /\ pc'[w] \in {"check", "ru_bytes"}

\* worker w takes a step of the RecordUpdate call it is in
InRecordUpdate(w) == KindOf(pc[w]) = "update" /\ pc'[w] # pc[w]

\* C16: when performUpdate returns, a lookup that found no row adds nothing
\* to the error counter, and so does an UPDATE that ran without error
\* (whether or not it matched a row); every other return adds exactly 1 to
\* the error counter and records no update.  An UPDATE without error is
\* recorded by RecordUpdate, whose statements add one update, its bytes and
\* one sample and no error.
C16_UpdateErrors ==
    [][\A w \in Workers :
          /\ UpdateReturns(w) =>
             /\ (benignNoRows' # benignNoRows) =>
                   /\ pc[w] = "update_select_flight"
                   /\ pc'[w] = "check"
                   /\ benignNoRows' = benignNoRows + 1
                   /\ UNCHANGED <<totalErrors, totalUpdates, totalBytes, updateLatencies>>
             /\ (totalUpdates' # totalUpdates) =>
                   /\ pc[w] = "update_exec_flight"
                   /\ pc'[w] = "ru_bytes"
                   /\ totalUpdates' = totalUpdates + 1
                   /\ UNCHANGED <<totalErrors, benignNoRows>>
             /\ (benignNoRows' = benignNoRows /\ totalUpdates' = totalUpdates) =>
                   /\ totalErrors' = totalErrors + 1
                   /\ pc'[w] = "check"
                   /\ UNCHANGED <<totalBytes, updateLatencies>>
             /\ (pc[w] = "update_select_flight" /\ Card(table) > 0) =>
                   benignNoRows' = benignNoRows
             /\ UNCHANGED <<totalInserts, insertLatencies, idVars>>
          /\ InRecordUpdate(w) =>
             /\ UNCHANGED <<totalErrors, benignNoRows, totalUpdates, totalInserts,
                            insertLatencies, idVars>>
             /\ pc[w] = "ru_bytes" => totalBytes' = totalBytes + UpdateBytes
             /\ pc[w] = "ru_append"
                   => updateLatencies' = Min(updateLatencies + 1, LatencyCap)]_vars

\* C16 witness: lookups on the emptied table have returned no row and no
\* error has been counted
C16_Witness ==
    /\ benignNoRows >= 1 /\ totalErrors = 0
    /\ Card(table) = 0 /\ lossEvents = 1
    /\ \A w \in Workers : pc[w] \in {"check", "exited"}


\* C17: a failed operation ends no worker and does not stop the run: a
\* worker exits only from the select at the top of its loop, and only when
\* the stop channel is closed or the context is done; a step that counts an
\* error closes no channel, cancels no context, moves _main nowhere and
\* leaves every worker running.
C17_ErrorsDoNotStop ==
    [][/\ \A w \in Workers :
             (pc'[w] = "exited" /\ pc[w] # "exited") =>
                 /\ pc[w] = "check"
                 /\ StopRequested
                 /\ totalErrors' = totalErrors
       /\ (totalErrors' # totalErrors) =>
             /\ UNCHANGED <<stopChan, ctxDone, mainPC, wg>>
             /\ \A w \in Workers : pc'[w] # "exited" \/ pc[w] = "exited"]_vars

\* C17 witness: the only worker has had an operation fail and is inside its
\* next operation, with no stop requested
C17_Witness ==
    /\ cfg.ConcurrentWriters = 1
    /\ totalErrors = 1 /\ opsBegun = 2
    /\ pc[1] \in InFlight
    /\ ~StopRequested /\ mainPC = "wait"


\* the conditions the claim lists for an accepted configuration
PercentsValid(c) ==
    /\ c.ReadPercent + c.InsertPercent + c.UpdatePercent = 100
    /\ \A p \in {c.ReadPercent, c.InsertPercent, c.UpdatePercent} : 0 <= p /\ p <= 100

SizesValid(c) ==
    /\ c.ConcurrentWriters >= 1 /\ c.Duration >= OneSecond /\ c.BatchSize >= 1
    /\ c.ReadBatchSize >= 1 /\ c.MinFreeConns >= 1

\* no connection manager, engine or worker exists and no statement was sent
NothingConstructed ==
    /\ tableTouched = FALSE /\ wg = 0 /\ spawnI = 0 /\ opsBegun = 0
    /\ \A w \in 1..MaxWorkers : pc[w] = "idle"
    /\ stopChan = "open" /\ totalInsertedIDs = 0

\* C18: Validate accepts a configuration only if the three percentages sum to
\* 100 and each lies in [0, 100], and workers, duration, batch size, read
\* batch size and minimum free connections are at least 1 (one second);
\* for any other configuration LoadFromEnv returns an error and _main exits
\* before a connection manager or an engine is constructed.
C18_ValidateGate ==
    /\ (Validate(cfg) = NoError) => (PercentsValid(cfg) /\ SizesValid(cfg))
    /\ (mainPC \notin {"load", "exit1"}) => (PercentsValid(cfg) /\ SizesValid(cfg))
    /\ (mainPC # "load" /\ ~(PercentsValid(cfg) /\ SizesValid(cfg)))
          => /\ mainPC = "exit1"
             /\ exitErr.kind = "config"
             /\ NothingConstructed

\* C18 witness: percentages that sum to 100 with READ_PERCENT negative have
\* been rejected by the range check of READ_PERCENT and _main has exited
C18_Witness ==
    /\ mainPC = "exit1" /\ exitErr = ConfigError("READ_PERCENT")
    /\ cfg.ReadPercent + cfg.InsertPercent + cfg.UpdatePercent = 100
    /\ cfg.ReadPercent < 0
    /\ SizesValid(cfg)
    /\ NothingConstructed


\* the die values for which the second engine's worker picks operation op
V2Share(op) == {r \in DieValues : PickOperationV2(r, cfg) = op}

\* C19: the worker of the second engine reads when r < ReadPercent, inserts
\* when ReadPercent <= r < ReadPercent + InsertPercent and updates
\* otherwise, so that exactly ReadPercent, InsertPercent and UpdatePercent of
\* the 100 die values select read, insert and update.
C19_V2Shares ==
    /\ V2Share("read") = {r \in DieValues : r < cfg.ReadPercent}
    /\ V2Share("insert") = {r \in DieValues : cfg.ReadPercent <= r
                                              /\ r < cfg.ReadPercent + cfg.InsertPercent}
    /\ V2Share("update") = {r \in DieValues : r >= cfg.ReadPercent + cfg.InsertPercent}
    /\ Cardinality(V2Share("read")) = cfg.ReadPercent
    /\ Cardinality(V2Share("insert")) = cfg.InsertPercent
    /\ Cardinality(V2Share("update")) = cfg.UpdatePercent
    /\ \A w \in Workers :
          /\ pc[w] = "read" => cfg.ReadPercent > 0
          /\ pc[w] = "insert" => cfg.InsertPercent > 0
          /\ pc[w] = "update" => cfg.UpdatePercent > 0

\* C19 witness: with 1% reads, 98% inserts and 1% updates one worker has
\* rolled the only read value and the other the only update value
C19_Witness ==
    /\ cfg.ReadPercent = 1 /\ cfg.InsertPercent = 98 /\ cfg.UpdatePercent = 1
    /\ cfg.ConcurrentWriters = 2
    /\ pc[1] = "read" /\ pc[2] = "update"


\* the die values for which the first engine's worker picks operation op
V1Share(op) == {r \in DieValues : PickOperation(r, cfg) = op}

\* C20: in the first engine, for every configuration Validate has accepted,
\* exactly InsertPercent of the 100 die values select an insert and exactly
\* UpdatePercent select an update.
C20_V1Shares ==
    (mainPC \notin {"load", "exit1"})
        => /\ Cardinality(V1Share("insert")) = cfg.InsertPercent
           /\ Cardinality(V1Share("update")) = cfg.UpdatePercent


\* C21: no counter update is lost: once every worker has exited, the
\* operation counters and the error counter equal the numbers of Record*
\* calls made and the byte total equals the sum of the byte arguments,
\* whatever the interleaving of the workers and of GetSnapshot.
C21_NoLostUpdate ==
    /\ AllWorkersExited =>
          /\ totalReads = calls.reads
          /\ totalInserts = calls.inserts
          /\ totalUpdates = calls.updates
          /\ totalErrors = calls.errors
          /\ totalBytes = calls.bytes
          /\ readLatencies = Min(calls.reads, LatencyCap)
          /\ insertLatencies = Min(calls.inserts, LatencyCap)
          /\ updateLatencies = Min(calls.updates, LatencyCap)
    /\ totalReads <= calls.reads /\ totalInserts <= calls.inserts
    /\ totalUpdates <= calls.updates /\ totalBytes <= calls.bytes

\* C21 witness: two workers have each recorded an insert, a snapshot was
\* taken meanwhile, and both workers have exited
C21_Witness ==
    /\ cfg.ConcurrentWriters = 2 /\ AllWorkersExited
    /\ calls.inserts = 2 /\ totalInserts = 2
    /\ totalBytes = 2 * BytesArg("insert", cfg, 0)
    /\ lastSnap.TotalInserts = 1

CumulativeFields ==
    {"TotalReads", "TotalInserts", "TotalUpdates", "TotalErrors", "TotalBytes",
     "TotalOperations"}

\* the snapshot a GetSnapshot call is about to return
Returning == snapPC \in {"percentiles", "write_last"}

\* GetSnapshot holds the mutex for reading
HoldsRLock == snapPC = "percentiles"

\* C22: of two GetSnapshot calls made one after the other, every cumulative field of the snapshot the later call returns is at least the field of the snapshot the earlier call returned, also while workers are recording
C22_SnapshotsMonotone ==
    /\ Returning => \A f \in CumulativeFields : snap[f] >= lastSnap[f]
    /\ \A f \in CumulativeFields : lastSnap[f] >= 0
    /\ lastSnap.TotalOperations
          = lastSnap.TotalReads + lastSnap.TotalInserts + lastSnap.TotalUpdates

\* C22 witness: the second call is about to return more inserts and bytes than the first returned, the first having seen an insert already, while a worker is in the middle of a Record call
C22_Witness ==
    /\ Returning /\ calls.snapshots = 2
    /\ lastSnap.TotalInserts = 1
    /\ snap.TotalInserts = 2 /\ snap.TotalBytes > lastSnap.TotalBytes
    /\ snap.TotalOperations > lastSnap.TotalOperations
    /\ \E w \in Workers : pc[w] \notin {"check", "exited", "idle"}

\* worker w is blocked in m.latencyMutex.Lock()
WaitsForLock(w) ==
    /\ KindOf(pc[w]) # "none" /\ pc[w] = AtLock(KindOf(pc[w]))
    /\ ~MayLock(latencyMutex)

\* the kinds whose samples the holder of the mutex is recording or reading
HeldForKinds ==
    IF latencyMutex.writer # 0 THEN {KindOf(pc[latencyMutex.writer])}
    ELSE IF latencyMutex.readers > 0 THEN {"insert", "update"} \cup RecordKinds
    ELSE {}

\* C24 (as stated): recording a sample of one kind never waits on a lock that is held for recording or reading the samples of a different kind
C24_OwnLockPerKind ==
    \A w \in Workers : WaitsForLock(w) => HeldForKinds \subseteq {KindOf(pc[w])}

\* C24 (amended): one read/write lock guards the buffers of all kinds: a worker holds it exactly while it appends, the snapshot holds it for reading exactly while it computes the percentiles, the two never hold it together, and whoever holds it can release it without waiting
C24_OneLockForAllKinds ==
    /\ latencyMutex.writer # 0 => latencyMutex.readers = 0
    /\ \A w \in Workers :
          (KindOf(pc[w]) # "none" /\ pc[w] = AtAppend(KindOf(pc[w])))
              <=> latencyMutex.writer = w
    /\ latencyMutex.readers = (IF HoldsRLock THEN 1 ELSE 0)
    /\ latencyMutex.writer # 0 => ENABLED RecordAppend(latencyMutex.writer)
    /\ HoldsRLock => ENABLED SnapRUnlock

\* C24 witness: a worker recording an insert sample waits for the lock while another worker holds it to record an update sample
C24_Witness ==
    \E w \in Workers :
        /\ WaitsForLock(w) /\ KindOf(pc[w]) = "insert"
        /\ latencyMutex.writer \in Workers \ {w}
        /\ HeldForKinds = {"update"}

\* the durations in the buffer
Samples == {durations[i] : i \in 1..Len(durations)}

\* the number of samples smaller than v, and of those not larger than v
Below(v) == Cardinality({i \in 1..Len(durations) : durations[i] < v})
UpTo(v) == Cardinality({i \in 1..Len(durations) : durations[i] <= v})

\* v is the element at (0-based) index k of the ascending sort of the buffer
IsSortedElement(v, k) == v \in Samples /\ Below(v) <= k /\ k < UpTo(v)

\* C23: for a buffer that is not empty, p50 <= p95 <= p99 <= the largest sample, and each of the three percentiles is a sample of the buffer
C23_PercentilesOrdered ==
    Len(durations) > 0 =>
        \A p \in DOMAIN result \cap OrderedPercentiles :
            /\ result[p] \in Samples
            /\ \A v \in Samples : result[p] <= v \/ UpTo(v) < Len(durations)
            /\ \A q \in DOMAIN result \cap OrderedPercentiles :
                   p <= q => result[p] <= result[q]

\* C23 witness: on a buffer of 101 samples the three percentiles have been computed and p50 < p95 < p99 < the largest sample
C23_Witness ==
    /\ Len(durations) = 101
    /\ OrderedPercentiles \subseteq DOMAIN result
    /\ result[50] < result[95] /\ result[95] < result[99]
    /\ \E v \in Samples : result[99] < v

\* C30: calculatePercentile(buffer, p) returns the element at index min(floor(n * p / 100), n - 1) of the ascending sort of the buffer, for n >= 1 and p in 0..100, and 0 for the empty buffer
C30_IndexedElement ==
    \A p \in DOMAIN result :
        IF Len(durations) = 0 THEN result[p] = 0
        ELSE IsSortedElement(result[p],
                             Min((Len(durations) * p) \div 100, Len(durations) - 1))

\* C30 witness: on the unsorted buffer 2, 0, 3 the percentile 100 is the last element of the sort, 3, and the percentile 50 the middle one, 2
C30_Witness ==
    /\ durations = <<2, 0, 3>>
    /\ percentile = 100 /\ {50, 100} \subseteq DOMAIN result
    /\ result[100] = 3 /\ result[50] = 2

\* worker w gets the reply to its statement in this step
Returns(w) == pc[w] = "insert_return" /\ pc'[w] # "insert_return"

\* what batchInsert has read and what performInsert records in this step is
\* the outcome the store decided for w
RecordsReply(w) ==
    IF reply[w].outcome.err
    THEN /\ totalErrors' = totalErrors + 1 /\ totalInserts' = totalInserts
         /\ recording[w].next = recording[w].first
    ELSE /\ totalInserts' = totalInserts + 1 /\ totalErrors' = totalErrors
         /\ recording[w].next - recording[w].first = cfg.BatchSize
         /\ CountIn(table, recording[w].first, recording[w].last) = cfg.BatchSize

\* C25 (as stated): a statement in flight when the stop signal or the cancellation of the run context fires runs to completion, and the outcome the store decided is what is recorded
C25_NeverInterrupted == [][\A w \in Workers : Returns(w) => RecordsReply(w)]_vars

\* C25 (amended): a statement in flight when Stop() closes the stop channel runs to completion and, unless the run context is done by then, the outcome the store decided is what is recorded; a worker never exits with a statement in flight
C25_StopDoesNotInterrupt ==
    [][/\ \A w \in Workers : (Returns(w) /\ ~ctxDone) => RecordsReply(w)
       /\ \A w \in Workers : (pc[w] \in InFlight /\ pc'[w] = "exited") => FALSE]_vars

\* C25 witness: a statement sent before the stop request returned after Stop() had closed the channel, the run context not done, with the success the store decided recorded, and the worker has exited since
C25_Witness ==
    \E w \in Workers :
        /\ reply[w].kind = "returned" /\ ~reply[w].stopAtSend
        /\ reply[w].stopAtReturn /\ ~reply[w].ctxAtReturn
        /\ ~reply[w].outcome.err
        /\ totalInserts = 1 /\ totalErrors = 0 /\ opsBegun = 1
        /\ pc[w] = "exited"

\* a Stop() call by c has begun and has not returned
InStop(c) == stopPC[c] \in {"call", "lock", "wait"}

\* C26: under fair scheduling and with every store operation returning, once Stop() is called or the run context is cancelled every worker eventually exits, and every Stop() call eventually returns
C26_Termination ==
    /\ ((StopRequested \/ \E c \in 0..NumStoppers : InStop(c)) ~> AllWorkersExited)
    /\ \A c \in 0..NumStoppers : (InStop(c) ~> stopPC[c] = "returned")

\* C26 witness: Stop() was called by _main and by another goroutine while a worker was inside an operation, which it finished with a further statement; all workers have exited and every Stop() call has returned
C26_Witness ==
    /\ cfg.ConcurrentWriters = MaxWorkers /\ AllWorkersExited
    /\ \E w \in Workers : lateOps[w] > 0
    /\ stopContended /\ ~ctxDone
    /\ \A c \in 0..NumStoppers : stopPC[c] = "returned"

\* Cleanup has been attempted
CleanupAttempted == cleanupResult # "pending"

\* C27: Cleanup is attempted exactly once and only after verification has finished, with or without an error; a Cleanup failure is a warning that neither aborts the run nor changes its reported outcome
C27_CleanupOnceAfterVerify ==
    /\ [](CleanupAttempted <=> mainPC = "done")
    /\ [](CleanupAttempted =>
            /\ vPC = "done" /\ vCalls = 1 /\ vResult.err # "pending"
            /\ report = ReportOf(vResult)
            /\ exitErr = NoError)
    /\ [][cleanupResult' # cleanupResult =>
            /\ ~CleanupAttempted /\ mainPC = "cleanup"
            /\ report' = report /\ exitErr' = exitErr /\ vResult' = vResult]_vars
    /\ [][CleanupAttempted => UNCHANGED vars]_vars

\* C27 witness: the verification returned an error, Cleanup was attempted after it and failed, and the run ended as completed with the report of the failed check
C27_Witness ==
    /\ mainPC = "done" /\ cleanupResult = "failed"
    /\ vResult.err \notin {"nil", "pending"}
    /\ report.verdict = "check_failed"
    /\ exitErr = NoError

\* Initialize is running
InInitialize == mainPC \in {"init_create", "init_count", "seed"}

InitializeErrors == {"create_table", "create_indices", "count_records", "seed"}

\* C28: Initialize is idempotent: it seeds only when the table is empty, so a second Initialize on a table that holds rows inserts nothing; and when table creation, index creation, the row count or the seeding fails it returns an error and the orchestrator starts no workers
C28_InitializeIdempotent ==
    /\ [](mainPC = "seed" => Card(table) = seedI /\ seedI < SeedCount)
    /\ [][(mainPC = "init_count" /\ Card(table) > 0) => mainPC' \in {"init_count", "start", "exit1"}]_vars
    /\ [][(InInitialize /\ <<table, nextID, insertedIDs, totalInsertedIDs>>'
                              # <<table, nextID, insertedIDs, totalInsertedIDs>>)
            => mainPC = "seed"]_vars
    /\ [](mainPC = "exit1" =>
            /\ exitErr.kind \in InitializeErrors
            /\ spawnI = 0 /\ wg = 0 /\ \A w \in 1..MaxWorkers : pc[w] = "idle")
    /\ [][mainPC = "exit1" => UNCHANGED vars]_vars
    /\ [](spawnI > 0 => exitErr = NoError /\ mainPC \in {"start", "wait"})

\* C28 witness: the first Initialize seeded the empty table, the second one has returned, and the table and the tracked set hold the 10,000 seed rows and nothing else
C28_Witness ==
    /\ initCalls = 1 /\ mainPC = "start" /\ seedI = 0
    /\ Card(table) = SeedCount /\ nextID = SeedCount + 1
    /\ totalInsertedIDs = SeedCount
    /\ lossEvents = 0

\* CheckDataLoss is in its chunk loop
InChunkLoop == vPC \in {"chunk_check", "chunk_query"}

\* CheckDataLoss has returned a result from the chunked path
ChunkedDone ==
    vPC = "done" /\ vResult.err = "nil" /\ ~RangePath /\ SliceLen(vIDs) > 0

\* C29: on the chunked path CheckDataLoss issues exactly ceil(n / 10,000) count queries, every chunk holds at most 10,000 identifiers, every tracked identifier is in exactly one chunk, found is the sum of the counts of the chunks and 0 <= lost <= n
C29_ChunksPartition ==
    LET n == SliceLen(vIDs)
    IN /\ InChunkLoop =>
             /\ vI = ChunkSize * vQueries /\ vI < n
             /\ ChunkEnd(vI, n) - vI \in 1..ChunkSize
             /\ vFound = ChunkCount(vIDs, 0, 0, vI, table)
             /\ vFound <= vI
       /\ ChunkedDone =>
             /\ n = Card(insertedIDs) /\ n <= RangeThreshold
             /\ ChunkSize * (vQueries - 1) < n /\ n <= ChunkSize * vQueries
             /\ vI = ChunkSize * vQueries
             /\ vFound = ChunkCount(vIDs, 0, 0, n, table)
             /\ vResult.total = n /\ vResult.lost = n - vFound
             /\ vResult.lost >= 0 /\ vResult.lost <= n

\* C29 witness: 19,000 tracked identifiers were counted in two chunks, of 10,000 and of 9,000, and some but not all of them are lost
C29_Witness ==
    /\ ChunkedDone
    /\ SliceLen(vIDs) = SeedCount + 9000
    /\ vQueries = 2
    /\ vResult.lost > 0 /\ vResult.lost < vResult.total

(***************************************************************************)
(* C31  After any sequence of RecordInsert, RecordUpdate and RecordRead    *)
(* calls, the latency buffer of every kind holds at most 10,000 samples:   *)
(* the most recent min(k, 10,000) of the k samples recorded for the kind,  *)
(* in the order they were recorded.                                        *)
(***************************************************************************)
\* the last n elements of a sequence
LastOf(s, n) == SubSeq(s, Len(s) - n + 1, Len(s))

C31_LastSamplesKept ==
    /\ \A kind \in {"read", "insert", "update"} :
          /\ Len(samples[kind]) <= LatencyCap
          /\ samples[kind] = LastOf(recorded[kind],
                                    Min(Len(recorded[kind]), LatencyCap))
    /\ readLatencies = Len(samples.read)
    /\ insertLatencies = Len(samples.insert)
    /\ updateLatencies = Len(samples.update)

\* a buffer that was full has taken two more samples, and its calls returned
C31_Witness ==
    /\ \E kind \in {"read", "insert", "update"} :
          /\ Len(recorded[kind]) = LatencyCap + 2
          /\ Len(samples[kind]) = LatencyCap
          /\ samples[kind][1] # recorded[kind][1]
    /\ \A w \in Workers : pc[w] = "check"
    /\ latencyMutex = Unlocked

(***************************************************************************)
(* C32  At no time are two GetSnapshot calls on the same Metrics in        *)
(* progress: the call of the reporting goroutine and the final call of     *)
(* _main after Stop() never overlap.                                       *)
(***************************************************************************)
C32_OneSnapshotCaller ==
    ~(reporter.pc = "snapshot" /\ mainPC = "final_snapshot")

(***************************************************************************)
(* C33  A snapshot is a view of one instant: the cumulative counts it      *)
(* reports are the values the counters held together at some single        *)
(* instant between the start and the return of GetSnapshot.                *)
(***************************************************************************)
\* a GetSnapshot call has returned and its history is at hand
Returned == snapPC = "idle" /\ calls.snapshots > 0

\* the loaded fields of snapshot s are the values held at instant v
AtInstant(s, v) ==
    \A k \in 1..Len(SnapFields) : s[SnapFields[k]] = v[SnapFields[k]]

C33_PointInTime ==
    Returned => \E v \in seen.held : AtInstant(lastSnap, v)

\* C33 as amended: every cumulative count of a snapshot is a value its own
\* counter held at some instant between the start and the return of
\* GetSnapshot, TotalOperations is the sum of the operation counts loaded,
\* and the snapshot is the view of one instant when the counters did not
\* change during the call.
C33_EachCountFromTheCall ==
    Returned =>
        /\ \A k \in 1..Len(SnapFields) :
              \E v \in seen.held : lastSnap[SnapFields[k]] = v[SnapFields[k]]
        /\ lastSnap.TotalOperations
              = lastSnap.TotalReads + lastSnap.TotalInserts + lastSnap.TotalUpdates
        /\ Cardinality(seen.held) = 1 => \E v \in seen.held : AtInstant(lastSnap, v)

\* workers recorded during the call, and the snapshot returned is the view
\* of none of the instants of the call
C33_Witness ==
    /\ Returned
    /\ Cardinality(seen.held) > 2
    /\ ~\E v \in seen.held : AtInstant(lastSnap, v)
    /\ lastSnap.TotalOperations > 0

(***************************************************************************)
(* C34  Stopped is terminal: once Stop() has returned, a later Start()     *)
(* only launches workers that find the stop channel closed at their first  *)
(* check and exit, with no store operation begun and no metric recorded.   *)
(***************************************************************************)
\* Start() was called after Stop() had returned
Restarted == restart.calls > 0

C34_StoppedIsTerminal ==
    /\ [](Restarted =>
            /\ stopChan = "closed"
            /\ \A w \in Workers : pc[w] \in {"check", "exited"})
    /\ [][Restarted =>
            /\ UNCHANGED <<opsBegun, lateOps, lateChecks, counterVars, idVars,
                           storeVars, benignNoRows>>
            /\ \A w \in Workers :
                  pc[w] = "check" /\ pc'[w] # "check" => pc'[w] = "exited"]_vars

\* every worker of the second Start has been launched and has exited again,
\* in a run that was stopped before its workers had used up their operations
C34_Witness ==
    /\ Restarted /\ ~restart.running
    /\ restart.i = cfg.ConcurrentWriters
    /\ AllWorkersExited /\ wg = 0
    /\ opsBegun < MaxOps
    /\ ~ctxDone

(***************************************************************************)
(* C35  No worker holds the latency mutex while one of its store           *)
(* operations is in progress: a worker takes it only inside the Record*    *)
(* call that follows the operation's return, and has released it before    *)
(* its next operation starts.                                              *)
(***************************************************************************)
\* worker w holds the write lock of latencyMutex
HoldsLock(w) == latencyMutex.writer = w

\* worker w is between the two lock operations of a Record* call
InLockedSection(w) == pc[w] \in {"ri_append", "ru_append", "rr_append"}

\* worker w is in performInsert / performUpdate before the Record* call
InOperation(w) == pc[w] \in InFlight \cup {"insert", "update"}

C35_NoLockAcrossOperation ==
    /\ [](\A w \in Workers :
            /\ HoldsLock(w) => InLockedSection(w)
            /\ InOperation(w) \/ pc[w] \in {"check", "exited"} => ~HoldsLock(w))
    /\ [][\A w \in Workers :
            /\ ~HoldsLock(w) /\ HoldsLock(w)' => pc[w] \in {"ri_lock", "ru_lock", "rr_lock"}
            /\ ~InOperation(w) /\ InOperation(w)' => ~HoldsLock(w) /\ ~HoldsLock(w)']_vars

\* a worker has a statement in flight while another worker, whose own
\* operation has returned, holds the mutex inside its Record* call
C35_Witness ==
    /\ \E w \in Workers : pc[w] \in InFlight
    /\ \E w \in Workers : HoldsLock(w) /\ InLockedSection(w)
    /\ cfg.ConcurrentWriters > 1

(***************************************************************************)
(* C36  Record synthesis in a worker draws only from that worker's own     *)
(* seeded generator: a step of a worker that generates records leaves the  *)
(* generator state shared by the workers, and every other worker's         *)
(* generator, as they were.                                                *)
(***************************************************************************)
\* this step of worker w runs lg.generateRecord()
GeneratesRecords(w) ==
    \/ pc[w] = "insert" /\ pc'[w] # "insert"
    \/ pc[w] = "update_select_flight" /\ pc'[w] = "update_exec_flight"

C36_OwnGeneratorOnly ==
    [][\A w \in Workers :
          GeneratesRecords(w) =>
              /\ globalRand' = globalRand
              /\ \A v \in Workers \ {w} : rng'[v] = rng[v]]_vars

(***************************************************************************)
(* C37  A capacity poll that fails inside MonitorConnections invokes no    *)
(* callback for that tick and leaves the published connection metrics as   *)
(* they were; the goroutine goes back to its select, where the next tick   *)
(* is taken; it returns only from that select with its context done.       *)
(***************************************************************************)
C37_FailedPollSkipped ==
    /\ [][monitor.failures' > monitor.failures =>
              /\ connMetrics' = connMetrics
              /\ monitor.callbacks' = monitor.callbacks
              /\ monitor.pc' = "select"]_vars
    /\ [](monitor.pc = "select" /\ monitor.polls < MaxPolls => ENABLED MonitorTick)
    /\ [][monitor.pc # "returned" /\ monitor.pc' = "returned" =>
              monitor.pc = "select" /\ MonitorCtxDone]_vars

\* after a poll that published values and a poll that failed, with the
\* store's sessions changed since, the values are the published ones and a
\* third poll is in progress
C37_Witness ==
    /\ monitor.failures = 1 /\ monitor.callbacks = 1 /\ monitor.polls = 3
    /\ monitor.pc = "count"
    /\ connMetrics.activeConns # nonIdleSessions
    /\ connMetrics.maxConns = maxConnections

(***************************************************************************)
(* C38  On the range-count path the reported lost never exceeds the number *)
(* of tracked identifiers that are not rows of the table, whatever rows    *)
(* the engine does not track lie between the least and the greatest        *)
(* tracked identifier: the estimate may under-report, never over-report.   *)
(***************************************************************************)
\* tracked identifiers that are not rows of the table
TrackedAbsent == Card(insertedIDs) - CountCommon(insertedIDs, table)

C38_RangeNeverOverReports ==
    (vPC = "done" /\ vResult.err = "nil" /\ RangePath)
        => vResult.lost <= TrackedAbsent

\* a range-path result that reports a loss, but less than the tracked rows
\* really missing: untracked rows of a batch that failed part-way are counted
C38_Witness ==
    /\ vPC = "done" /\ vResult.err = "nil" /\ RangePath
    /\ vResult.lost > 0
    /\ vResult.lost < TrackedAbsent
    /\ CountIn(table, MinID(insertedIDs), MaxID(insertedIDs))
           > CountCommon(insertedIDs, table)

(***************************************************************************)
(* C39  A batch insert that performInsert counts as an error adds no       *)
(* identifier to the tracked set, also when reading the returned           *)
(* identifiers fails part-way.                                             *)
(***************************************************************************)
\* C39 as stated: when batchInsert returns an error, which performInsert
\* counts as an error, none of the identifiers of the batch is in the
\* tracked set.
C39_ErrorBatchUntracked ==
    \A w \in Workers :
        (pc[w] = "insert_return" /\ recording[w].failed)
            => CountIn(insertedIDs, recording[w].first,
                       recording[w].first + cfg.BatchSize - 1) = 0

====
